---- MODULE Spec2Model ----
(***************************************************************************)
(* Grid trading core: order-amount arithmetic, initial placement, fill     *)
(* handling, the per-bot supervisor, stop_bot, restore after restart and   *)
(* orphan repair, modelled from src/src/services and src/src/utils.        *)
(*                                                                         *)
(* Decimal values are fixed-point integers: prices and quote amounts in    *)
(* units of 1/PriceScale, base amounts in units of 1/AmtScale.             *)
(***************************************************************************)
EXTENDS Integers, Sequences, FiniteSets, TLC

(* ------------------------------------------------------------------ *)
(* Bounds of the exploration                                           *)
(* ------------------------------------------------------------------ *)
(* exchange fills, stop_bot calls, health passes and restarts per run  *)
MaxEvents == 3
(* direct calls of handle_filled_order per run (SpecDispatch, SpecFlat) *)
MaxDispatch == 3

(* ------------------------------------------------------------------ *)
(* Fixed-point representation                                          *)
(* ------------------------------------------------------------------ *)
PriceDigits == 2
AmtDigits == 3

RECURSIVE Pow10(_)
Pow10(n) == IF n <= 0 THEN 1 ELSE 10 * Pow10(n - 1)

PriceScale == Pow10(PriceDigits)
AmtScale == Pow10(AmtDigits)

(* ------------------------------------------------------------------ *)
(* Configuration of the modelled range bot (BotManager.create_bot)     *)
(* ------------------------------------------------------------------ *)
BotIds == {1}
\* the bots one user can have on the same symbol
UserBots == BotIds \cup {2}
LowerPrice == 1000
UpperPrice == 1100
GridLevels == 4
InvestmentAmount == 5000

(* amount_precision as returned by get_exchange_info: a number of      *)
(* decimal places (int >= 1) or a step size 10^-n (Decimal < 1)        *)
Places(n) == [form |-> "places", n |-> n]
Step(n) == [form |-> "step", n |-> n]

(* int(precision): a decimal-place count stays, a step size < 1        *)
(* truncates to 0                                                      *)
IntOfPrecision(prec) == IF prec.form = "places" THEN prec.n ELSE 0

(* round_down(value, precision) for a base amount num/den:             *)
(* quantize to 10^-int(precision) with ROUND_DOWN                      *)
RoundDownAmount(num, den, prec) ==
    LET d == IntOfPrecision(prec)
    IN ((num * Pow10(d)) \div den) * Pow10(AmtDigits - d)

(* round_down(value, precision) for a price already in fixed point;    *)
(* ROUND_DOWN truncates towards zero                                   *)
RoundDownPrice(p, pp) ==
    LET q == Pow10(PriceDigits - pp)
    IN IF p >= 0 THEN (p \div q) * q ELSE 0 - (((0 - p) \div q) * q)

(* _get_precision_unit: 10^-n for n decimal places, and for a step     *)
(* 10^-n: decimal_places = -floor(log10(step)) = n                     *)
PrecisionUnit(prec) == Pow10(AmtDigits - prec.n)

(* the flat code paths use Decimal('10') ** -int(amount_precision)     *)
FlatPrecisionUnit(prec) == Pow10(AmtDigits - IntOfPrecision(prec))

(* calculate_order_amounts, one level: order_size and price in price   *)
(* units, result in amount units                                       *)
AmountCore(order_size, price, prec, min_amount, unit) ==
    LET rd == RoundDownAmount(order_size, price, prec)
        a1 == IF rd < min_amount THEN min_amount ELSE rd
    IN IF a1 * price < order_size * AmtScale THEN rd + unit ELSE a1

CalcOrderAmount(order_size, price, prec, min_amount) ==
    AmountCore(order_size, price, prec, min_amount, PrecisionUnit(prec))

(* create_flat_grid_orders / handle_filled_order_flat, one order       *)
FlatOrderAmount(order_size, price, prec, min_amount) ==
    AmountCore(order_size, price, prec, min_amount, FlatPrecisionUnit(prec))

(* calculate_grid_levels: arithmetic ladder lower + i * step           *)
PriceLevel(i) == LowerPrice + (i * (UpperPrice - LowerPrice)) \div GridLevels

NumBuyLevels == GridLevels \div 2
NumSellLevels == GridLevels \div 2

(* ------------------------------------------------------------------ *)
(* State                                                               *)
(* ------------------------------------------------------------------ *)
VARIABLES
    info,       \* get_exchange_info(symbol) of the bot's symbol
    bots,       \* grid_bots rows, by id
    orders,     \* grid_orders rows, id = index
    exch,       \* orders known to the exchange, exchange id = index
    sup,        \* OrderMonitor.active_monitors: supervisor task per bot
    stp,        \* the stop_bot call in progress
    rst,        \* Application.setup: restore phase
    cnt,        \* events and direct dispatches so far, bounding the exploration
    sv,         \* inputs and results of the amount computations
    mon,        \* OrderMonitor: active_monitors and the tasks it created
    gw,         \* MEXCService: the gateway call in progress
    hc,         \* HealthCheck: the last periodic pass over a bot
    cq,         \* stop_bot: the cancel tasks under its semaphore
    bk,         \* monitor_bot_orders: retry_delay and the last sleep
    ms          \* monitor_bot_orders: profit milestones notified

vars == <<info, bots, orders, exch, sup, stp, rst, cnt, sv, mon, gw, hc, cq, bk, ms>>

ExchangeInfos ==
    { [price_precision |-> 1, amount_precision |-> Places(3), min_order_amount |-> 10] }

\* prebuy: the outcome of the market buy of the initial placement;
\* prebuy_at: how many exchange orders had been created when it was sent;
\* rejected: the levels whose limit order the exchange refused then
NoBot == [status |-> "none", grid_type |-> "arithmetic", total_profit |-> 0,
          completed_cycles |-> 0, total_buy_orders |-> 0, total_sell_orders |-> 0,
          prebuy |-> "none", prebuy_at |-> 0, rejected |-> {}]

\* cred: a poll of this task failed with invalid credentials;
\* notes: credential-failure notifications the task has sent;
\* cancelled: the task ended by CancelledError
SupNone == [pc |-> "none", todo |-> <<>>, placed |-> 0, cred |-> FALSE, notes |-> 0,
            cancelled |-> FALSE]
\* del: "no", or how the delete_bot call in progress reached its
\* deletes: "after_stop" (it ran stop_bot first) or "direct"
\* todo: the open orders restore has still to check; filled0: the ones
\* of them the exchange had filled when the restore began; invoked: the
\* orders handle_filled_order was called for; polls_ok: no
\* get_order_status call of the restore has failed
RstRunning == [pc |-> "running", todo |-> <<>>, filled0 |-> {}, invoked |-> {},
               polls_ok |-> TRUE]
StpIdle == [pc |-> "idle", bot |-> 0, sell_all |-> FALSE, snap |-> {},
            pending |-> {}, ok |-> {}, count |-> 0, del |-> "no"]
SvIdle == [pc |-> "off"]
GwIdle == [pc |-> "idle", op |-> "none", attempt |-> 0, attempts |-> 0, current_delay |-> 0,
           waits |-> <<>>, last |-> "none", result |-> "none", conn |-> 0, returned |-> "none"]
\* n: passes so far; bot, balance, ticker, quote_ok, ok: the last pass and
\* what the exchange answered in it; placed, cancelled: its repairs;
\* asked: the amount handle_orphaned_assets asked the exchange to sell;
\* at: the value of cnt when it ended
HcIdle == [n |-> 0, bot |-> 0, placed |-> 0, cancelled |-> 0, balance |-> 0, ticker |-> 0,
           quote_ok |-> TRUE, ok |-> FALSE, at |-> [events |-> 0, dispatch |-> 0],
           asked |-> 0]
\* pc: where the stop_bot call is; snap: the open orders it loaded;
\* wait: cancel tasks before the semaphore; fly: tasks holding a permit,
\* their cancel request sent; sub: how often each order was submitted;
\* left: orders whose cancel failed, still open on the exchange
CqIdle == [pc |-> "idle", snap |-> {}, wait |-> {}, fly |-> {}, sub |-> <<>>,
           left |-> {}, scanned |-> FALSE]
\* pc: "none" before the task starts, "loop" inside while True, "done"
\* after it left the loop; n: iterations so far; fails: iterations that
\* raised since the last one that did not; slept: the last sleep, in
\* seconds; kind: which sleep that was
BkIdle == [pc |-> "none", retry_delay |-> 0, n |-> 0, fails |-> 0, slept |-> 0,
           kind |-> "none"]
\* percent: total_profit_percent, in tenths of a percent; n: filled orders
\* handled so far; sent: the milestones notify_profit_milestone was called
\* with, in order
MsIdle == [percent |-> 0, n |-> 0, sent |-> <<>>]
MonIdle == [active |-> <<>>, tasks |-> <<>>, call |-> [op |-> "none", bot |-> 0, registered |-> FALSE]]

Init ==
    /\ info \in ExchangeInfos
    /\ bots = [b \in UserBots |-> NoBot]
    /\ orders = <<>>
    /\ exch = <<>>
    /\ sup = [b \in BotIds |-> SupNone]
    /\ stp = StpIdle
    /\ rst = RstRunning
    /\ cnt = [events |-> 0, dispatch |-> 0]
    /\ sv = SvIdle
    /\ mon = MonIdle
    /\ gw = GwIdle
    /\ hc = HcIdle
    /\ cq = CqIdle
    /\ bk = BkIdle
    /\ ms = MsIdle

Running == rst.pc = "running"

OrderIds == 1..Len(orders)
OpenOrdersOf(b) == {o \in OrderIds : orders[o].bot = b /\ orders[o].status = "open"}

RECURSIVE SetToSeq(_)
SetToSeq(S) ==
    IF S = {} THEN <<>>
    ELSE LET m == CHOOSE x \in S : \A y \in S : x <= y
         IN <<m>> \o SetToSeq(S \ {m})

(* ------------------------------------------------------------------ *)
(* GridStrategy.create_initial_orders                                  *)
(* ------------------------------------------------------------------ *)
NewOrder(b, xid, side, level, price, amount, paired) ==
    [bot |-> b, xid |-> xid, side |-> side, level |-> level, price |-> price,
     amount |-> amount, status |-> "open", paired |-> paired, profit |-> <<>>]

NewExch(side, price, amount, cause) ==
    [status |-> "open", side |-> side, price |-> price, amount |-> amount,
     cause |-> cause]

LevelAmount(i) ==
    CalcOrderAmount(InvestmentAmount, PriceLevel(i), info.amount_precision,
                    info.min_order_amount)

(* a placement loop that ends at the first level the exchange rejects *)
RECURSIVE PlaceLevelsUntilRejected(_, _, _, _, _, _)
PlaceLevelsUntilRejected(b, lv, side, acc, os, es) ==
    IF lv = <<>> \/ Head(lv) \notin acc THEN [o |-> os, e |-> es]
    ELSE LET i == Head(lv)
             price == RoundDownPrice(PriceLevel(i), info.price_precision)
             amount == CalcOrderAmount(InvestmentAmount, PriceLevel(i),
                                       info.amount_precision, info.min_order_amount)
         IN PlaceLevelsUntilRejected(b, Tail(lv), side, acc,
                Append(os, NewOrder(b, Len(es) + 1, side, i, price, amount, 0)),
                Append(es, NewExch(side, price, amount, 0)))

(* one pass of the placement loop over the levels lv (a sequence),     *)
(* acc = the levels whose create_limit_order the exchange accepts      *)
RECURSIVE PlaceLevels(_, _, _, _, _, _)
PlaceLevels(b, lv, side, acc, os, es) ==
    IF lv = <<>> THEN [o |-> os, e |-> es]
    ELSE LET i == Head(lv)
             price == RoundDownPrice(PriceLevel(i), info.price_precision)
             amount == LevelAmount(i)
         IN IF i \in acc
            THEN PlaceLevels(b, Tail(lv), side, acc,
                    Append(os, NewOrder(b, Len(es) + 1, side, i, price, amount, 0)),
                    Append(es, NewExch(side, price, amount, 0)))
            ELSE PlaceLevels(b, Tail(lv), side, acc, os, es)

BuyLevels == 0..(NumBuyLevels - 1)
SellLevels == NumBuyLevels..(NumBuyLevels + NumSellLevels - 1)

(* the sets of levels the exchange accepts at initial placement        *)
AcceptSets == {BuyLevels \cup SellLevels}

(* create_bot with the sell loop entered whatever the market buy did   *)
CreateBotSellsAnyway(b, acc, market_ok) ==
    /\ Running
    /\ bots[b].status = "none"
    /\ LET buys == PlaceLevels(b, SetToSeq(BuyLevels), "buy", acc, orders, exch)
           sells == PlaceLevels(b, SetToSeq(SellLevels), "sell", acc, buys.o, buys.e)
       IN /\ orders' = sells.o
          /\ exch' = sells.e
          /\ bots' = [bots EXCEPT ![b] =
                 [NoBot EXCEPT !.status = "active",
                     !.total_buy_orders = Len(buys.o) - Len(orders),
                     !.total_sell_orders = Len(sells.o) - Len(buys.o),
                     !.prebuy = IF market_ok THEN "ok" ELSE "failed",
                     !.prebuy_at = Len(buys.e),
                     !.rejected = (BuyLevels \cup SellLevels) \ acc]]
    /\ UNCHANGED <<info, sup, stp, rst, cnt, sv, mon, gw, hc, cq, bk, ms>>

(* BotManager.create_bot: the row is committed as active, then the     *)
(* initial orders are placed; market_ok = the market pre-buy succeeds  *)
CreateBot(b, acc, market_ok) ==
    /\ Running
    /\ bots[b].status = "none"
    /\ LET buys == PlaceLevels(b, SetToSeq(BuyLevels), "buy", acc, orders, exch)
           sells == IF market_ok
                    THEN PlaceLevels(b, SetToSeq(SellLevels), "sell", acc, buys.o, buys.e)
                    ELSE buys
       IN /\ orders' = sells.o
          /\ exch' = sells.e
          /\ bots' = [bots EXCEPT ![b] =
                 [NoBot EXCEPT !.status = "active",
                     !.total_buy_orders = Len(buys.o) - Len(orders),
                     !.total_sell_orders = Len(sells.o) - Len(buys.o),
                     !.prebuy = IF market_ok THEN "ok" ELSE "failed",
                     !.prebuy_at = Len(buys.e),
                     !.rejected = (BuyLevels \cup SellLevels) \ acc]]
    /\ UNCHANGED <<info, sup, stp, rst, cnt, sv, mon, gw, hc, cq, bk, ms>>

(* the exchange fills an open limit order                              *)
ExchangeFill(x) ==
    /\ x \in 1..Len(exch)
    /\ exch[x].status = "open"
    /\ cnt.events < MaxEvents
    /\ cnt' = [cnt EXCEPT !.events = @ + 1]
    /\ exch' = [exch EXCEPT ![x].status = "filled"]
    /\ UNCHANGED <<info, bots, orders, sup, stp, rst, sv, mon, gw, hc, cq, bk, ms>>

(* ------------------------------------------------------------------ *)
(* GridStrategy.handle_filled_order, range grid                        *)
(* ------------------------------------------------------------------ *)
(* a counter order always one level up                                 *)
CounterLevelUp(ord) == ord.level + 1

(* the level of the counter order: one above a buy, one below a sell   *)
CounterLevel(ord) ==
    IF ord.side = "buy" THEN ord.level + 1 ELSE ord.level - 1

(* next_level < len(price_levels) for a buy, prev_level >= 0 for a sell *)
HasCounter(ord) ==
    IF ord.side = "buy" THEN ord.level + 1 < GridLevels + 1
    ELSE ord.level - 1 >= 0

CounterSide(ord) == IF ord.side = "buy" THEN "sell" ELSE "buy"

CounterPrice(ord) ==
    RoundDownPrice(PriceLevel(CounterLevel(ord)), info.price_precision)

(* the request sent to the exchange for the counter order of order o   *)
CounterExch(o) ==
    NewExch(CounterSide(orders[o]), CounterPrice(orders[o]), orders[o].amount, o)

(* the row persisted for the counter order; only a sell created after  *)
(* a buy carries paired_order_id                                       *)
CounterRow(o, xid) ==
    LET ord == orders[o]
    IN NewOrder(ord.bot, xid, CounterSide(ord), CounterLevel(ord),
                CounterPrice(ord), ord.amount,
                IF ord.side = "buy" THEN o ELSE 0)

(* calculate_profit with zero fees, in price units x amount units      *)
CalculateProfit(buy, sell) == sell.price * sell.amount - buy.price * buy.amount

(* the paired buy is looked up for a filled sell with paired_order_id  *)
PaysProfit(o) ==
    /\ orders[o].side = "sell"
    /\ orders[o].paired # 0
    /\ orders[o].paired \in OrderIds

(* the commit of handle_filled_order(o): status = 'filled', the new    *)
(* row when a counter order was placed (xid # 0), profit statistics    *)
CommitFilledOrders(o, xid) ==
    LET marked == [orders EXCEPT
                     ![o].status = "filled",
                     ![o].profit = IF PaysProfit(o)
                                   THEN <<CalculateProfit(orders[orders[o].paired], orders[o])>>
                                   ELSE orders[o].profit]
    IN IF xid # 0 THEN Append(marked, CounterRow(o, xid)) ELSE marked

CommitFilledBots(o) ==
    LET b == orders[o].bot
    IN IF PaysProfit(o)
       THEN [bots EXCEPT
               ![b].total_profit = @ + CalculateProfit(orders[orders[o].paired], orders[o]),
               ![b].completed_cycles = @ + 1]
       ELSE bots

(* ------------------------------------------------------------------ *)
(* OrderMonitor.monitor_bot_orders: one supervisor task per bot        *)
(* ------------------------------------------------------------------ *)
(* top of the loop without the status test: the open orders are       *)
(* loaded whatever the bot row says                                    *)
SupStartAnyStatus(b) ==
    /\ Running
    /\ sup[b].pc = "idle"
    /\ sup' = [sup EXCEPT ![b] =
            [@ EXCEPT !.pc = IF OpenOrdersOf(b) = {} THEN "idle" ELSE "check",
                      !.todo = SetToSeq(OpenOrdersOf(b)), !.placed = 0]]
    /\ UNCHANGED <<info, bots, orders, exch, stp, rst, cnt, sv, mon, gw, hc, cq, bk, ms>>

(* top of the loop: reload the bot row, exit unless active, load the   *)
(* open orders                                                         *)
SupStart(b) ==
    /\ Running
    /\ sup[b].pc = "idle"
    /\ IF bots[b].status # "active"
       THEN sup' = [sup EXCEPT ![b].pc = "exited"]
       ELSE sup' = [sup EXCEPT ![b] =
                [@ EXCEPT !.pc = IF OpenOrdersOf(b) = {} THEN "idle" ELSE "check",
                          !.todo = SetToSeq(OpenOrdersOf(b)), !.placed = 0]]
    /\ UNCHANGED <<info, bots, orders, exch, stp, rst, cnt, sv, mon, gw, hc, cq, bk, ms>>

(* after an order of the iteration: the next one, or the end of the    *)
(* iteration                                                           *)
SupAdvance(s) ==
    [s EXCEPT !.pc = IF Len(s.todo) > 1 THEN "check" ELSE "idle",
              !.todo = Tail(s.todo), !.placed = 0]

(* get_order_status answers and the order is not filled, or it fails   *)
(* with a MEXCError that is no authentication error: next order        *)
SupPollSkip(b, failed) ==
    /\ Running
    /\ sup[b].pc = "check"
    /\ failed \/ exch[orders[Head(sup[b].todo)].xid].status # "filled"
    /\ sup' = [sup EXCEPT ![b] = SupAdvance(sup[b])]
    /\ UNCHANGED <<info, bots, orders, exch, stp, rst, cnt, sv, mon, gw, hc, cq, bk, ms>>

(* the phrases found in the lower-cased text of the MEXCError that     *)
(* get_order_status raises when the exchange rejects the credentials:  *)
(* the exchange's own message behind a fixed prefix                    *)
AuthErrorTexts == {{"api key"}, {"authentication"}, {"signature"}}

IsAuthMessage(e) == "authentication" \in e \/ "api key" \in e

(* get_order_status fails because the exchange rejects the            *)
(* credentials, with message text e.  If the text is recognised the    *)
(* bot is set to stopped, committed, one notification is sent and the  *)
(* task returns; otherwise the loop continues with the next order      *)
SupPollAuthError(b, e) ==
    /\ Running
    /\ sup[b].pc = "check"
    /\ bots[b].status # "none"
    /\ cnt.events < MaxEvents
    /\ cnt' = [cnt EXCEPT !.events = @ + 1]
    /\ IF IsAuthMessage(e)
       THEN /\ bots' = [bots EXCEPT ![b].status = "stopped"]
            /\ sup' = [sup EXCEPT ![b] = [@ EXCEPT !.pc = "exited", !.todo = <<>>,
                           !.placed = 0, !.cred = TRUE, !.notes = @ + 1]]
       ELSE /\ bots' = bots
            /\ sup' = [sup EXCEPT ![b] = [SupAdvance(@) EXCEPT !.cred = TRUE]]
    /\ UNCHANGED <<info, orders, exch, stp, rst, sv, mon, gw, hc, cq, bk, ms>>

(* get_order_status says filled: handle_filled_order up to and         *)
(* including create_limit_order; accepted = the exchange accepts it    *)
SupPollFilled(b, accepted) ==
    /\ Running
    /\ sup[b].pc = "check"
    /\ LET o == Head(sup[b].todo)
       IN /\ exch[orders[o].xid].status = "filled"
          /\ bots[b].status # "none"
          /\ IF orders[o].status = "deleted"
             THEN \* the row is gone: GridStrategyError -> backoff, next iteration
                  /\ accepted
                  /\ exch' = exch
                  /\ sup' = [sup EXCEPT ![b] = [@ EXCEPT !.pc = "idle", !.todo = <<>>, !.placed = 0]]
             ELSE IF ~HasCounter(orders[o])
             THEN /\ accepted
                  /\ sup' = [sup EXCEPT ![b].pc = "commit"]
                  /\ exch' = exch
             ELSE IF accepted
             THEN /\ exch' = Append(exch, CounterExch(o))
                  /\ sup' = [sup EXCEPT ![b].pc = "commit", ![b].placed = Len(exch) + 1]
             ELSE \* MEXCError -> rollback -> GridStrategyError -> backoff, next iteration
                  /\ exch' = exch
                  /\ sup' = [sup EXCEPT ![b] = [@ EXCEPT !.pc = "idle", !.todo = <<>>, !.placed = 0]]
    /\ UNCHANGED <<info, bots, orders, stp, rst, cnt, sv, mon, gw, hc, cq, bk, ms>>

(* handle_filled_order: the rest, ending in db.commit()                *)
SupCommit(b) ==
    /\ Running
    /\ sup[b].pc = "commit"
    /\ LET o == Head(sup[b].todo)
       IN IF orders[o].status = "deleted"
          THEN \* the loaded row was deleted meanwhile: the commit raises
               /\ UNCHANGED <<orders, bots>>
               /\ sup' = [sup EXCEPT ![b] = [@ EXCEPT !.pc = "idle", !.todo = <<>>, !.placed = 0]]
          ELSE /\ orders' = CommitFilledOrders(o, sup[b].placed)
               /\ bots' = CommitFilledBots(o)
               /\ sup' = [sup EXCEPT ![b] = SupAdvance(sup[b])]
    /\ UNCHANGED <<info, exch, stp, rst, cnt, sv, mon, gw, hc, cq, bk, ms>>

(* handle_filled_order: an exception after create_limit_order (the     *)
(* commit fails): rollback, GridStrategyError, the supervisor backs off *)
(* and starts its next iteration                                       *)
SupCommitFail(b) ==
    /\ Running
    /\ sup[b].pc = "commit"
    /\ cnt.events < MaxEvents
    /\ cnt' = [cnt EXCEPT !.events = @ + 1]
    /\ sup' = [sup EXCEPT ![b] = [@ EXCEPT !.pc = "idle", !.todo = <<>>, !.placed = 0]]
    /\ UNCHANGED <<info, bots, orders, exch, stp, rst, sv, mon, gw, hc, cq, bk, ms>>

(* ------------------------------------------------------------------ *)
(* BotManager.stop_bot, called by the stop_confirm handler             *)
(* ------------------------------------------------------------------ *)
(* load the bot and its open orders                                    *)
StopBegin(b, sell_all) ==
    /\ Running
    /\ stp.pc = "idle"
    /\ cnt.events < MaxEvents
    /\ bots[b].status \notin {"none", "deleted"}
    /\ stp' = [pc |-> IF OpenOrdersOf(b) = {} THEN "scan" ELSE "cancel",
               bot |-> b, sell_all |-> sell_all, snap |-> OpenOrdersOf(b),
               pending |-> OpenOrdersOf(b), ok |-> {}, count |-> 0, del |-> "no"]
    /\ cnt' = [cnt EXCEPT !.events = @ + 1]
    /\ UNCHANGED <<info, bots, orders, exch, sup, rst, sv, mon, gw, hc, cq, bk, ms>>

StopAfterCancel(o, success) ==
    [stp EXCEPT !.pending = @ \ {o},
                !.ok = IF success THEN @ \cup {o} ELSE @,
                !.count = IF success THEN @ + 1 ELSE @,
                !.pc = IF stp.pending = {o} THEN "scan" ELSE "cancel"]

(* cancel_single_order, the exchange cancels the open order: the       *)
(* loaded row gets status = 'cancelled' (flushed by the later commit)  *)
StopCancelOk(o) ==
    /\ Running
    /\ stp.pc = "cancel"
    /\ o \in stp.pending
    /\ exch[orders[o].xid].status = "open"
    /\ exch' = [exch EXCEPT ![orders[o].xid].status = "canceled"]
    /\ stp' = StopAfterCancel(o, TRUE)
    /\ UNCHANGED <<info, bots, orders, sup, rst, cnt, sv, mon, gw, hc, cq, bk, ms>>

(* the order is no longer open on the exchange and the exchange        *)
(* answers OrderNotFound, which cancel_order turns into success        *)
StopCancelNotFound(o) ==
    /\ Running
    /\ stp.pc = "cancel"
    /\ o \in stp.pending
    /\ exch[orders[o].xid].status # "open"
    /\ stp' = StopAfterCancel(o, TRUE)
    /\ UNCHANGED <<info, bots, orders, exch, sup, rst, cnt, sv, mon, gw, hc, cq, bk, ms>>

(* cancel_order raises MEXCError: logged, the row stays as loaded      *)
StopCancelFail(o) ==
    /\ Running
    /\ stp.pc = "cancel"
    /\ o \in stp.pending
    /\ stp' = StopAfterCancel(o, FALSE)
    /\ UNCHANGED <<info, bots, orders, exch, sup, rst, cnt, sv, mon, gw, hc, cq, bk, ms>>

(* exchange orders of the symbol that are open and not among the       *)
(* exchange ids of the loaded open orders                              *)
OrphanedOrderIds ==
    {x \in 1..Len(exch) :
        /\ exch[x].status = "open"
        /\ \A o \in stp.snap : orders[o].xid # x}

RECURSIVE CancelAll(_, _)
CancelAll(es, X) ==
    IF X = {} THEN es
    ELSE LET x == CHOOSE y \in X : TRUE
         IN CancelAll([es EXCEPT ![x].status = "canceled"], X \ {x})

(* get_open_orders and the cancels of the orphaned ids; done = the     *)
(* orphans whose cancel succeeds (none when get_open_orders raises)    *)
StopScan(done) ==
    /\ Running
    /\ stp.pc = "scan"
    /\ done \subseteq OrphanedOrderIds
    /\ exch' = CancelAll(exch, done)
    /\ stp' = [stp EXCEPT !.pc = "finish", !.count = @ + Cardinality(done)]
    /\ UNCHANGED <<info, bots, orders, sup, rst, cnt, sv, mon, gw, hc, cq, bk, ms>>

(* the rows cancelled in this session are written with their new       *)
(* status, whatever the table holds by now                             *)
FlushCancelled(os, ok) ==
    [o \in 1..Len(os) |-> IF o \in ok THEN [os[o] EXCEPT !.status = "cancelled"] ELSE os[o]]

\* the MEXCError of the market sell would end the call before the status
\* is set
StopSellRaises(market_ok) ==
    /\ Running
    /\ stp.pc = "finish"
    /\ orders' = FlushCancelled(orders, stp.ok)
    /\ bots' = IF market_ok THEN [bots EXCEPT ![stp.bot].status = "stopped"] ELSE bots
    /\ stp' = IF stp.del = "no" THEN StpIdle ELSE [stp EXCEPT !.pc = "delete"]
    /\ UNCHANGED <<info, exch, sup, rst, cnt, sv, mon, gw, hc, cq, bk, ms>>

(* commit of the cancelled rows, the market sell when sell_all (its    *)
(* MEXCError is logged: market_ok), then status = 'stopped' and the    *)
(* return of the result                                                *)
StopSell(market_ok) ==
    /\ Running
    /\ stp.pc = "finish"
    /\ orders' = FlushCancelled(orders, stp.ok)
    /\ bots' = [bots EXCEPT ![stp.bot].status = "stopped"]
    /\ stp' = IF stp.del = "no" THEN StpIdle ELSE [stp EXCEPT !.pc = "delete"]
    /\ UNCHANGED <<info, exch, sup, rst, cnt, sv, mon, gw, hc, cq, bk, ms>>

StopFinish == \E market_ok \in BOOLEAN : StopSell(market_ok)

(* ------------------------------------------------------------------ *)
(* bot_pause / bot_resume handlers                                     *)
(* ------------------------------------------------------------------ *)
PauseBot(b) ==
    /\ Running
    /\ bots[b].status = "active"
    /\ bots' = [bots EXCEPT ![b].status = "paused"]
    /\ UNCHANGED <<info, orders, exch, sup, stp, rst, cnt, sv, mon, gw, hc, cq, bk, ms>>

ResumeBot(b) ==
    /\ Running
    /\ bots[b].status = "paused"
    /\ bots' = [bots EXCEPT ![b].status = "active"]
    /\ UNCHANGED <<info, orders, exch, sup, stp, rst, cnt, sv, mon, gw, hc, cq, bk, ms>>

(* ------------------------------------------------------------------ *)
(* Application.shutdown / setup: restart of the process                *)
(* ------------------------------------------------------------------ *)
ActiveOpenOrders ==
    {o \in OrderIds : orders[o].status = "open" /\ bots[orders[o].bot].status = "active"}

(* every task ends where it stands (stop_all cancels the supervisors   *)
(* at their current await); setup then restores the active bots        *)
Restart ==
    /\ Running
    /\ cnt.events < MaxEvents
    /\ cnt' = [cnt EXCEPT !.events = @ + 1]
    /\ sup' = [b \in BotIds |-> SupNone]
    /\ stp' = StpIdle
    /\ rst' = [RstRunning EXCEPT !.pc = "sync", !.todo = SetToSeq(ActiveOpenOrders),
                  !.filled0 = {o \in ActiveOpenOrders : exch[orders[o].xid].status = "filled"}]
    /\ UNCHANGED <<info, bots, orders, exch, sv, mon, gw, hc, cq, bk, ms>>

(* _sync_bot_orders: the order is not filled on the exchange, or       *)
(* get_order_status raises MEXCError                                   *)
RestoreSkip(failed) ==
    /\ rst.pc = "sync"
    /\ rst.todo # <<>>
    /\ failed \/ exch[orders[Head(rst.todo)].xid].status # "filled"
    /\ rst' = [rst EXCEPT !.todo = Tail(@), !.polls_ok = @ /\ ~failed]
    /\ UNCHANGED <<info, bots, orders, exch, sup, stp, cnt, sv, mon, gw, hc, cq, bk, ms>>

(* the orders of todo that do not belong to bot b                      *)
RECURSIVE DropBot(_, _)
DropBot(todo, b) ==
    IF todo = <<>> THEN <<>>
    ELSE IF orders[Head(todo)].bot = b THEN DropBot(Tail(todo), b)
    ELSE <<Head(todo)>> \o DropBot(Tail(todo), b)

(* _sync_bot_orders: filled during offline -> handle_filled_order; a   *)
(* GridStrategyError ends the restore of this bot                      *)
RestoreFilled(accepted) ==
    /\ rst.pc = "sync"
    /\ rst.todo # <<>>
    /\ LET o == Head(rst.todo)
       IN /\ exch[orders[o].xid].status = "filled"
          /\ IF ~HasCounter(orders[o])
             THEN /\ accepted
                  /\ orders' = CommitFilledOrders(o, 0)
                  /\ bots' = CommitFilledBots(o)
                  /\ exch' = exch
                  /\ rst' = [rst EXCEPT !.todo = Tail(@), !.invoked = @ \cup {o}]
             ELSE IF accepted
             THEN /\ exch' = Append(exch, CounterExch(o))
                  /\ orders' = CommitFilledOrders(o, Len(exch) + 1)
                  /\ bots' = CommitFilledBots(o)
                  /\ rst' = [rst EXCEPT !.todo = Tail(@), !.invoked = @ \cup {o}]
             ELSE /\ rst' = [rst EXCEPT !.todo = DropBot(@, orders[o].bot),
                                        !.invoked = @ \cup {o}]
                  /\ UNCHANGED <<orders, bots, exch>>
    /\ UNCHANGED <<info, sup, stp, cnt, sv, mon, gw, hc, cq, bk, ms>>

(* setup: start_monitoring for every active bot                        *)
RestoreDone ==
    /\ rst.pc = "sync"
    /\ rst.todo = <<>>
    /\ rst' = RstRunning
    /\ sup' = [b \in BotIds |->
                 IF bots[b].status = "active"
                 THEN [SupNone EXCEPT !.pc = "idle"]
                 ELSE SupNone]
    /\ UNCHANGED <<info, bots, orders, exch, stp, cnt, sv, mon, gw, hc, cq, bk, ms>>

(* ------------------------------------------------------------------ *)
(* HealthCheck.handle_orphaned_assets                                  *)
(* ------------------------------------------------------------------ *)
Balances == {20}
Tickers == {950, 1040}

OpenSellsOf(b) == {o \in OpenOrdersOf(b) : orders[o].side = "sell"}

RECURSIVE SumAmounts(_)
SumAmounts(S) ==
    IF S = {} THEN 0
    ELSE LET o == CHOOSE x \in S : TRUE
         IN orders[o].amount + SumAmounts(S \ {o})

OrphanedAmount(b, balance) == balance - SumAmounts(OpenSellsOf(b))

(* levels above the current price without an open sell                 *)
FreeLevels(b, current_price) ==
    {i \in 0..GridLevels :
        /\ PriceLevel(i) > current_price
        /\ \A o \in OpenSellsOf(b) : orders[o].level # i}

FreeLevel(b, current_price) ==
    CHOOSE i \in FreeLevels(b, current_price) :
        \A j \in FreeLevels(b, current_price) : i <= j

(* one periodic pass over an active bot that places the sell           *)
HealthOrphan(b, balance, current_price) ==
    /\ Running
    /\ cnt.events < MaxEvents
    /\ bots[b].status = "active"
    /\ balance # 0
    /\ OrphanedAmount(b, balance) > 0
    /\ OrphanedAmount(b, balance) >= info.min_order_amount
    /\ FreeLevels(b, current_price) # {}
    /\ LET lvl == FreeLevel(b, current_price)
           amt == OrphanedAmount(b, balance)
       IN /\ exch' = Append(exch, NewExch("sell", PriceLevel(lvl), amt, 0))
          /\ orders' = Append(orders,
                 NewOrder(b, Len(exch) + 1, "sell", lvl, PriceLevel(lvl), amt, 0))
    /\ cnt' = [cnt EXCEPT !.events = @ + 1]
    /\ UNCHANGED <<info, bots, sup, stp, rst, sv, mon, gw, hc, cq, bk, ms>>

(* ------------------------------------------------------------------ *)
(* Direct calls of GridStrategy.handle_filled_order                    *)
(* ------------------------------------------------------------------ *)
(* one complete call for a persisted order whose exchange order is     *)
(* filled; a rejected counter order rolls the transaction back         *)
Dispatch(o, accepted) ==
    /\ o \in OrderIds
    /\ bots[orders[o].bot].grid_type # "flat"
    /\ exch[orders[o].xid].status = "filled"
    /\ cnt.dispatch < MaxDispatch
    /\ cnt' = [cnt EXCEPT !.dispatch = @ + 1]
    /\ IF ~HasCounter(orders[o])
       THEN /\ accepted
            /\ orders' = CommitFilledOrders(o, 0)
            /\ bots' = CommitFilledBots(o)
            /\ exch' = exch
       ELSE IF accepted
       THEN /\ exch' = Append(exch, CounterExch(o))
            /\ orders' = CommitFilledOrders(o, Len(exch) + 1)
            /\ bots' = CommitFilledBots(o)
       ELSE UNCHANGED <<orders, bots, exch>>
    /\ UNCHANGED <<info, sup, stp, rst, sv, mon, gw, hc, cq, bk, ms>>

NextDispatch ==
    \/ \E b \in BotIds, acc \in AcceptSets, m \in BOOLEAN : CreateBot(b, acc, m)
    \/ \E x \in 1..Len(exch) : ExchangeFill(x)
    \/ \E o \in OrderIds, a \in BOOLEAN : Dispatch(o, a)

SpecDispatch == Init /\ [][NextDispatch]_vars

(* ------------------------------------------------------------------ *)
(* Direct calls of the BotManager lifecycle methods                    *)
(* ------------------------------------------------------------------ *)
(* BotManager.pause_bot: the bot is loaded and set to paused           *)
ManagerPauseBot(b) ==
    /\ Running
    /\ bots[b].status \notin {"none", "deleted"}
    /\ bots' = [bots EXCEPT ![b].status = "paused"]
    /\ UNCHANGED <<info, orders, exch, sup, stp, rst, cnt, sv, mon, gw, hc, cq, bk, ms>>

(* BotManager.resume_bot: BotManagerError unless the bot is paused     *)
ManagerResumeBot(b) ==
    /\ Running
    /\ bots[b].status = "paused"
    /\ bots' = [bots EXCEPT ![b].status = "active"]
    /\ UNCHANGED <<info, orders, exch, sup, stp, rst, cnt, sv, mon, gw, hc, cq, bk, ms>>

NextManager ==
    \/ \E b \in BotIds, acc \in AcceptSets, m \in BOOLEAN : CreateBot(b, acc, m)
    \/ \E x \in 1..Len(exch) : ExchangeFill(x)
    \/ \E b \in BotIds : ManagerPauseBot(b)
    \/ \E b \in BotIds : ManagerResumeBot(b)
    \/ \E b \in BotIds, sa \in BOOLEAN : StopBegin(b, sa)
    \/ \E o \in OrderIds : StopCancelOk(o)
    \/ \E o \in OrderIds : StopCancelNotFound(o)
    \/ \E o \in OrderIds : StopCancelFail(o)
    \/ \E done \in SUBSET (1..Len(exch)) : StopScan(done)
    \/ StopFinish

SpecManager == Init /\ [][NextManager]_vars

(* two bots of one user on the same symbol, created and stopped        *)
NextIndependent ==
    \/ \E b \in UserBots, acc \in AcceptSets, m \in BOOLEAN : CreateBot(b, acc, m)
    \/ \E b \in UserBots : StopBegin(b, FALSE)
    \/ \E o \in OrderIds : StopCancelOk(o)
    \/ \E done \in {{}, OrphanedOrderIds} : StopScan(done)
    \/ StopFinish

SpecIndependent == Init /\ [][NextIndependent]_vars

(* ------------------------------------------------------------------ *)
(* Flat grid: create_flat_bot and handle_filled_order_flat             *)
(* ------------------------------------------------------------------ *)
(* the flat configuration of the bot row                               *)
StartingPrice == (30 * PriceScale) \div 100
FlatSpread == (55 * PriceScale) \div 100
FlatIncrement == (10 * PriceScale) \div 100
BuyOrdersCount == 2
SellOrdersCount == 2
FlatOrderSize == 5 * PriceScale

(* starting_price -/+ i * flat_increment, rounded down                 *)
FlatLevelPrice(side, i) ==
    RoundDownPrice(IF side = "buy" THEN StartingPrice - FlatIncrement * i
                   ELSE StartingPrice + FlatIncrement * i,
                   info.price_precision)

FlatAmountAt(price) ==
    FlatOrderAmount(FlatOrderSize, price, info.amount_precision, info.min_order_amount)

(* one pass of a placement loop of create_flat_grid_orders             *)
RECURSIVE PlaceFlatLevels(_, _, _, _, _, _)
PlaceFlatLevels(b, lv, side, acc, os, es) ==
    IF lv = <<>> THEN [o |-> os, e |-> es]
    ELSE LET i == Head(lv)
             price == FlatLevelPrice(side, i)
             amount == FlatAmountAt(price)
         IN IF <<side, i>> \in acc
            THEN PlaceFlatLevels(b, Tail(lv), side, acc,
                    Append(os, NewOrder(b, Len(es) + 1, side, i, price, amount, 0)),
                    Append(es, NewExch(side, price, amount, 0)))
            ELSE PlaceFlatLevels(b, Tail(lv), side, acc, os, es)

FlatLevelKeys ==
    ({"buy"} \X (1..BuyOrdersCount)) \cup ({"sell"} \X (1..SellOrdersCount))

(* the sets of flat levels the exchange accepts at initial placement   *)
FlatAcceptSets == {FlatLevelKeys, {<<"buy", 1>>, <<"sell", 1>>}, {}}

(* BotManager.create_flat_bot with create_flat_grid_orders: the row is *)
(* committed as active, a rejected level is skipped, a failed market   *)
(* buy skips the sells; the result dict is returned in every case      *)
CreateFlatBot(b, acc, market_ok) ==
    /\ Running
    /\ bots[b].status = "none"
    /\ LET buys == PlaceFlatLevels(b, SetToSeq(1..BuyOrdersCount), "buy", acc, orders, exch)
           sells == IF market_ok
                    THEN PlaceFlatLevels(b, SetToSeq(1..SellOrdersCount), "sell", acc,
                                         buys.o, buys.e)
                    ELSE buys
       IN /\ orders' = sells.o
          /\ exch' = sells.e
          /\ bots' = [bots EXCEPT ![b] =
                 [NoBot EXCEPT !.status = "active", !.grid_type = "flat",
                     !.total_buy_orders = Len(buys.o) - Len(orders),
                     !.total_sell_orders = Len(sells.o) - Len(buys.o),
                     !.prebuy = IF market_ok THEN "ok" ELSE "failed",
                     !.prebuy_at = Len(buys.e),
                     !.rejected = FlatLevelKeys \ acc]]
    /\ UNCHANGED <<info, sup, stp, rst, cnt, sv, mon, gw, hc, cq, bk, ms>>

(* the counter price always one spread up                              *)
FlatCounterPriceUp(ord) ==
    RoundDownPrice(ord.price + FlatSpread, info.price_precision)

(* filled_price + flat_spread after a buy, - flat_spread after a sell  *)
FlatCounterPrice(ord) ==
    RoundDownPrice(IF ord.side = "buy" THEN ord.price + FlatSpread
                   ELSE ord.price - FlatSpread,
                   info.price_precision)

(* a buy always gets its sell; a sell gets a buy unless buy_price <= 0 *)
FlatHasCounter(ord) == ord.side = "buy" \/ FlatCounterPrice(ord) > 0

FlatCounterExch(o) ==
    NewExch(CounterSide(orders[o]), FlatCounterPrice(orders[o]),
            FlatAmountAt(FlatCounterPrice(orders[o])), o)

(* the new row keeps the level; a sell after a buy is paired with it   *)
FlatCounterRow(o, xid) ==
    LET ord == orders[o]
    IN NewOrder(ord.bot, xid, CounterSide(ord), ord.level, FlatCounterPrice(ord),
                FlatAmountAt(FlatCounterPrice(ord)),
                IF ord.side = "buy" THEN o ELSE 0)

(* the commit of handle_filled_order_flat(o)                           *)
CommitFilledFlatOrders(o, xid) ==
    LET marked == [orders EXCEPT
                     ![o].status = "filled",
                     ![o].profit = IF PaysProfit(o)
                                   THEN <<CalculateProfit(orders[orders[o].paired], orders[o])>>
                                   ELSE orders[o].profit]
    IN IF xid # 0 THEN Append(marked, FlatCounterRow(o, xid)) ELSE marked

(* one complete call of handle_filled_order for an order of a flat     *)
(* bot: routed to handle_filled_order_flat; a rejected counter order   *)
(* is logged and the call goes on to its commit                        *)
DispatchFlat(o, accepted) ==
    /\ o \in OrderIds
    /\ bots[orders[o].bot].grid_type = "flat"
    /\ exch[orders[o].xid].status = "filled"
    /\ cnt.dispatch < MaxDispatch
    /\ cnt' = [cnt EXCEPT !.dispatch = @ + 1]
    /\ FlatHasCounter(orders[o]) \/ accepted
    /\ IF FlatHasCounter(orders[o]) /\ accepted
       THEN /\ exch' = Append(exch, FlatCounterExch(o))
            /\ orders' = CommitFilledFlatOrders(o, Len(exch) + 1)
       ELSE /\ exch' = exch
            /\ orders' = CommitFilledFlatOrders(o, 0)
    /\ bots' = CommitFilledBots(o)
    /\ UNCHANGED <<info, sup, stp, rst, sv, mon, gw, hc, cq, bk, ms>>

NextFlat ==
    \/ \E b \in BotIds, acc \in FlatAcceptSets, m \in BOOLEAN : CreateFlatBot(b, acc, m)
    \/ \E x \in 1..Len(exch) : ExchangeFill(x)
    \/ \E o \in OrderIds, a \in BOOLEAN : DispatchFlat(o, a)

SpecFlat == Init /\ [][NextFlat]_vars

(* initial placement of either kind of bot, and its fills              *)
(* the exchange accepts every level, all but one, or none              *)
LevelAcceptSets ==
    {BuyLevels \cup SellLevels, {}}
        \cup {(BuyLevels \cup SellLevels) \ {i} : i \in BuyLevels \cup SellLevels}

NextPlacement ==
    \/ \E b \in BotIds, acc \in LevelAcceptSets, m \in BOOLEAN : CreateBot(b, acc, m)
    \/ \E b \in BotIds, acc \in FlatAcceptSets, m \in BOOLEAN : CreateFlatBot(b, acc, m)
    \/ \E x \in 1..Len(exch) : ExchangeFill(x)
    \/ \E o \in OrderIds, a \in BOOLEAN : Dispatch(o, a)
    \/ \E o \in OrderIds, a \in BOOLEAN : DispatchFlat(o, a)

SpecPlacement == Init /\ [][NextPlacement]_vars

(* BotManager.start_bot on an existing bot (balance and price read     *)
(* without error): create_initial_orders places the ladder again and   *)
(* assigns both counters, then status = 'active'                       *)
StartBot(b, acc, market_ok) ==
    /\ Running
    /\ bots[b].status \notin {"none", "deleted"}
    /\ bots[b].grid_type # "flat"
    /\ cnt.events < MaxEvents
    /\ cnt' = [cnt EXCEPT !.events = @ + 1]
    /\ LET buys == PlaceLevels(b, SetToSeq(BuyLevels), "buy", acc, orders, exch)
           sells == IF market_ok
                    THEN PlaceLevels(b, SetToSeq(SellLevels), "sell", acc, buys.o, buys.e)
                    ELSE buys
       IN /\ orders' = sells.o
          /\ exch' = sells.e
          /\ bots' = [bots EXCEPT
                        ![b].status = "active",
                        ![b].total_buy_orders = Len(buys.o) - Len(orders),
                        ![b].total_sell_orders = Len(sells.o) - Len(buys.o),
                        ![b].prebuy = IF market_ok THEN "ok" ELSE "failed",
                        ![b].prebuy_at = Len(buys.e),
                        ![b].rejected = (BuyLevels \cup SellLevels) \ acc]
    /\ UNCHANGED <<info, sup, stp, rst, sv, mon, gw, hc, cq, bk, ms>>

NextStart ==
    \/ \E b \in BotIds, acc \in AcceptSets, m \in BOOLEAN : CreateBot(b, acc, m)
    \/ \E b \in BotIds, acc \in AcceptSets, m \in BOOLEAN : StartBot(b, acc, m)
    \/ \E x \in 1..Len(exch) : ExchangeFill(x)
    \/ \E o \in OrderIds, a \in BOOLEAN : Dispatch(o, a)
    \/ \E b \in BotIds : ManagerPauseBot(b)
    \/ \E b \in BotIds : ManagerResumeBot(b)

SpecStart == Init /\ [][NextStart]_vars

(* ------------------------------------------------------------------ *)
(* BotManager.stop_bot: the cancel tasks and their semaphore           *)
(* ------------------------------------------------------------------ *)
(* asyncio.Semaphore(10)                                               *)
Permits == 10
(* open orders beyond the number of permits                            *)
MaxOver == 1
(* the numbers of open rows stop_bot may load                          *)
OpenCounts == {0, 2, Permits + MaxOver}
(* exchange orders of the symbol that have no row                      *)
ExchangeOrphans == {Permits + MaxOver + 1, Permits + MaxOver + 2}
(* the orders whose cancel the exchange may refuse                     *)
Refusable == {1, Permits + MaxOver + 1}
CancelIds == 1..(Permits + MaxOver + 2)

(* the semaphore takes every task whatever its value                   *)
SemaphoreAbsent == TRUE

(* async with semaphore: a permit is free                              *)
SemaphoreFree == Cardinality(cq.fly) < Permits

(* the open rows are loaded and gather starts one task per row         *)
StopLoad(n) ==
    /\ cq.pc = "idle"
    /\ cq' = [CqIdle EXCEPT !.pc = "db", !.snap = 1..n, !.wait = 1..n,
                            !.sub = [t \in CancelIds |-> 0]]
    /\ UNCHANGED <<info, bots, orders, exch, sup, stp, rst, cnt, sv, mon, gw, hc, bk, ms>>

(* cancel_with_limit / cancel_orphaned_with_limit: the task enters the *)
(* semaphore and sends its cancel_order                                *)
CancelAcquire(t) ==
    /\ cq.pc \in {"db", "orphans"}
    /\ t \in cq.wait
    /\ SemaphoreFree
    /\ cq' = [cq EXCEPT !.wait = @ \ {t}, !.fly = @ \cup {t}, !.sub[t] = @ + 1]
    /\ UNCHANGED <<info, bots, orders, exch, sup, stp, rst, cnt, sv, mon, gw, hc, bk, ms>>

(* cancel_order returns (True) or raises MEXCError (False, logged);    *)
(* the task leaves the semaphore                                       *)
CancelReturn(t, success) ==
    /\ cq.pc \in {"db", "orphans"}
    /\ t \in cq.fly
    /\ success \/ t \in Refusable
    /\ cq' = [cq EXCEPT !.fly = @ \ {t},
                        !.left = IF success THEN @ ELSE @ \cup {t}]
    /\ UNCHANGED <<info, bots, orders, exch, sup, stp, rst, cnt, sv, mon, gw, hc, bk, ms>>

(* the orders get_open_orders returns: the orphans and the rows' orders*)
(* that are still open                                                 *)
ExchangeOpen == ExchangeOrphans \cup cq.left

(* after the first gather: get_open_orders; answered = it returned.    *)
(* The ids not among the loaded rows get one task each                 *)
StopScanOrphans(answered) ==
    /\ cq.pc = "db"
    /\ cq.wait = {} /\ cq.fly = {}
    /\ cq' = IF answered
             THEN [cq EXCEPT !.pc = "orphans", !.scanned = TRUE,
                             !.wait = {x \in ExchangeOpen : x \notin cq.snap}]
             ELSE [cq EXCEPT !.pc = "done"]
    /\ UNCHANGED <<info, bots, orders, exch, sup, stp, rst, cnt, sv, mon, gw, hc, bk, ms>>

(* the second gather is over                                           *)
StopGathered ==
    /\ cq.pc = "orphans"
    /\ cq.wait = {} /\ cq.fly = {}
    /\ cq' = [cq EXCEPT !.pc = "done"]
    /\ UNCHANGED <<info, bots, orders, exch, sup, stp, rst, cnt, sv, mon, gw, hc, bk, ms>>

(* stop_bot returns                                                    *)
StopReturn ==
    /\ cq.pc = "done"
    /\ cq' = CqIdle
    /\ UNCHANGED <<info, bots, orders, exch, sup, stp, rst, cnt, sv, mon, gw, hc, bk, ms>>

NextCancel ==
    \/ \E n \in OpenCounts : StopLoad(n)
    \/ \E t \in CancelIds : CancelAcquire(t)
    \/ \E t \in CancelIds, r \in BOOLEAN : CancelReturn(t, r)
    \/ \E a \in BOOLEAN : StopScanOrphans(a)
    \/ StopGathered
    \/ StopReturn

SpecCancel == Init /\ [][NextCancel]_vars

(* ------------------------------------------------------------------ *)
(* The amount computations on their own                                *)
(* ------------------------------------------------------------------ *)
OrderSizes == {500, 1000, 5000}
SolverPrices == {250, 1025, 13000}
PrecisionDigits == 1..AmtDigits
MinSteps == {0, 1, 10}

(* inputs: order size, price, n (decimal places, or the step 10^-n)    *)
(* and a minimum amount that is a whole number of steps                *)
InitSolver ==
    /\ info \in ExchangeInfos
    /\ bots = [b \in UserBots |-> NoBot]
    /\ orders = <<>>
    /\ exch = <<>>
    /\ sup = [b \in BotIds |-> SupNone]
    /\ stp = StpIdle
    /\ rst = RstRunning
    /\ cnt = [events |-> 0, dispatch |-> 0]
    /\ mon = MonIdle
    /\ gw = GwIdle
    /\ hc = HcIdle
    /\ cq = CqIdle
    /\ bk = BkIdle
    /\ ms = MsIdle
    /\ \E s \in OrderSizes, p \in SolverPrices, n \in PrecisionDigits, k \in MinSteps :
          sv = [pc |-> "in", s |-> s, p |-> p, n |-> n,
                m |-> k * Pow10(AmtDigits - n)]

(* range placement (calculate_order_amounts) and flat placement and    *)
(* counter orders, each with the precision in both forms               *)
Solve ==
    /\ sv.pc = "in"
    /\ sv' = [pc |-> "out", s |-> sv.s, p |-> sv.p, n |-> sv.n, m |-> sv.m,
              range_places |-> CalcOrderAmount(sv.s, sv.p, Places(sv.n), sv.m),
              range_step |-> CalcOrderAmount(sv.s, sv.p, Step(sv.n), sv.m),
              flat_places |-> FlatOrderAmount(sv.s, sv.p, Places(sv.n), sv.m),
              flat_step |-> FlatOrderAmount(sv.s, sv.p, Step(sv.n), sv.m)]
    /\ UNCHANGED <<info, bots, orders, exch, sup, stp, rst, cnt, mon, gw, hc, cq, bk, ms>>

NextSolver == Solve

SpecSolver == InitSolver /\ [][NextSolver]_vars

(* ------------------------------------------------------------------ *)
(* OrderMonitor: the registry active_monitors and the tasks created    *)
(* by start_monitoring.  mon.active maps a registered bot id to the    *)
(* index of its task in mon.tasks; a task is "running", "cancelling"   *)
(* (cancel() was called, CancelledError not yet delivered) or "done".  *)
(* ------------------------------------------------------------------ *)
MonitorIds == {1, 2}

NeverRegistered(b) == FALSE

IsRegistered(b) == b \in DOMAIN mon.active

CancelTask(tasks, t) ==
    IF tasks[t].state = "running"
    THEN [tasks EXCEPT ![t].state = "cancelling"]
    ELSE tasks

RECURSIVE CancelTasks(_, _)
CancelTasks(tasks, ts) ==
    IF ts = {} THEN tasks
    ELSE LET t == CHOOSE x \in ts : TRUE
         IN CancelTasks(CancelTask(tasks, t), ts \ {t})

StartMonitoring(b) ==
    /\ cnt.events < MaxEvents
    /\ cnt' = [cnt EXCEPT !.events = @ + 1]
    /\ mon' = IF IsRegistered(b)
              THEN [mon EXCEPT !.call = [op |-> "start", bot |-> b, registered |-> TRUE]]
              ELSE [active |-> [x \in DOMAIN mon.active \cup {b} |->
                                   IF x = b THEN Len(mon.tasks) + 1 ELSE mon.active[x]],
                    tasks |-> Append(mon.tasks, [bot |-> b, state |-> "running"]),
                    call |-> [op |-> "start", bot |-> b, registered |-> FALSE]]
    /\ UNCHANGED <<info, bots, orders, exch, sup, stp, rst, sv, gw, hc, cq, bk, ms>>

StopMonitoring(b) ==
    /\ cnt.events < MaxEvents
    /\ cnt' = [cnt EXCEPT !.events = @ + 1]
    /\ mon' = IF ~IsRegistered(b)
              THEN [mon EXCEPT !.call = [op |-> "stop", bot |-> b, registered |-> FALSE]]
              ELSE [active |-> [x \in DOMAIN mon.active \ {b} |-> mon.active[x]],
                    tasks |-> CancelTask(mon.tasks, mon.active[b]),
                    call |-> [op |-> "stop", bot |-> b, registered |-> TRUE]]
    /\ UNCHANGED <<info, bots, orders, exch, sup, stp, rst, sv, gw, hc, cq, bk, ms>>

StopAll ==
    /\ cnt.events < MaxEvents
    /\ cnt' = [cnt EXCEPT !.events = @ + 1]
    /\ mon' = [active |-> <<>>,
               tasks |-> CancelTasks(mon.tasks, {mon.active[x] : x \in DOMAIN mon.active}),
               call |-> [op |-> "stop_all", bot |-> 0, registered |-> mon.active # <<>>]]
    /\ UNCHANGED <<info, bots, orders, exch, sup, stp, rst, sv, gw, hc, cq, bk, ms>>

\* the loop of monitor_bot_orders ends by itself: bot row missing or not active
TaskExit(t) ==
    /\ t \in DOMAIN mon.tasks
    /\ mon.tasks[t].state = "running"
    /\ IF mon.tasks[t].bot \in BotIds
       THEN bots[mon.tasks[t].bot].status # "active"
       ELSE TRUE
    /\ mon' = [mon EXCEPT !.tasks[t].state = "done"]
    /\ UNCHANGED <<info, bots, orders, exch, sup, stp, rst, cnt, sv, gw, hc, cq, bk, ms>>

\* CancelledError reaches the task at its next await; the loop breaks
TaskCancelled(t) ==
    /\ t \in DOMAIN mon.tasks
    /\ mon.tasks[t].state = "cancelling"
    /\ mon' = [mon EXCEPT !.tasks[t].state = "done"]
    /\ UNCHANGED <<info, bots, orders, exch, sup, stp, rst, cnt, sv, gw, hc, cq, bk, ms>>

NextMonitor ==
    \/ \E b \in BotIds, acc \in AcceptSets, market_ok \in BOOLEAN : CreateBot(b, acc, market_ok)
    \/ \E b \in MonitorIds : StartMonitoring(b)
    \/ \E b \in MonitorIds : StopMonitoring(b)
    \/ StopAll
    \/ \E t \in 1..MaxEvents : TaskExit(t)
    \/ \E t \in 1..MaxEvents : TaskCancelled(t)

SpecMonitor == Init /\ [][NextMonitor]_vars

(* ------------------------------------------------------------------ *)
(* OrderMonitor.monitor_bot_orders: the sleeps of the loop.  Delays    *)
(* are in seconds.                                                     *)
(* ------------------------------------------------------------------ *)
RetryDelayStart == 1
MaxRetryDelay == 60
CheckInterval == 10
MaxIters == 9

Min2(a, b) == IF a < b THEN a ELSE b

(* the task starts: retry_delay = 1.0                                  *)
MonitorBegin ==
    /\ bk.pc = "none"
    /\ bk' = [BkIdle EXCEPT !.pc = "loop", !.retry_delay = RetryDelayStart]
    /\ UNCHANGED <<info, bots, orders, exch, sup, stp, rst, cnt, sv, mon, gw, hc, cq, ms>>

(* an iteration over a bot with open orders runs to its end: commit,   *)
(* retry_delay = 1.0, sleep(check_interval)                            *)
IterChecked ==
    /\ bk.pc = "loop"
    /\ bk.n < MaxIters
    /\ bk' = [bk EXCEPT !.n = @ + 1, !.fails = 0, !.retry_delay = RetryDelayStart,
                        !.slept = CheckInterval, !.kind = "interval"]
    /\ UNCHANGED <<info, bots, orders, exch, sup, stp, rst, cnt, sv, mon, gw, hc, cq, ms>>

(* an iteration that finds no open order: sleep(check_interval) and    *)
(* continue                                                            *)
IterNoOrders ==
    /\ bk.pc = "loop"
    /\ bk.n < MaxIters
    /\ bk' = [bk EXCEPT !.n = @ + 1, !.fails = 0,
                        !.slept = CheckInterval, !.kind = "interval"]
    /\ UNCHANGED <<info, bots, orders, exch, sup, stp, rst, cnt, sv, mon, gw, hc, cq, ms>>

(* an iteration raises: sleep(retry_delay), then retry_delay doubles   *)
(* up to max_retry_delay                                               *)
IterFailed ==
    /\ bk.pc = "loop"
    /\ bk.n < MaxIters
    /\ bk' = [bk EXCEPT !.n = @ + 1, !.fails = @ + 1,
                        !.slept = bk.retry_delay, !.kind = "backoff",
                        !.retry_delay = Min2(bk.retry_delay * 2, MaxRetryDelay)]
    /\ UNCHANGED <<info, bots, orders, exch, sup, stp, rst, cnt, sv, mon, gw, hc, cq, ms>>

(* the bot is missing or not active, or the task is cancelled: break   *)
IterBreak ==
    /\ bk.pc = "loop"
    /\ bk' = [bk EXCEPT !.pc = "done"]
    /\ UNCHANGED <<info, bots, orders, exch, sup, stp, rst, cnt, sv, mon, gw, hc, cq, ms>>

NextBackoff ==
    \/ MonitorBegin
    \/ IterChecked
    \/ IterNoOrders
    \/ IterFailed
    \/ IterBreak

SpecBackoff == Init /\ [][NextBackoff]_vars

(* ------------------------------------------------------------------ *)
(* monitor_bot_orders: the profit-milestone check after a filled order *)
(* was handled.  Percentages are in tenths of a percent.               *)
(* ------------------------------------------------------------------ *)
MaxFills == 6

ProfitMilestones == {5, 10, 15, 20, 25, 30, 50, 75, 100}

\* int(bot.total_profit_percent // 5) * 5
CurrentMilestone(percent) == (percent \div 50) * 5

\* what one completed cycle adds to total_profit_percent
CycleProfits == {-5, 15, 30}

\* handle_filled_order returned; when it completed a cycle it has added
\* the cycle's profit to total_profit_percent
MilestoneCheck(cycle_completed, profit) ==
    /\ ms.n < MaxFills
    /\ LET percent == IF cycle_completed THEN ms.percent + profit ELSE ms.percent
       IN ms' = [n |-> ms.n + 1,
                 percent |-> percent,
                 sent |-> IF /\ cycle_completed
                             /\ percent > 0
                             /\ CurrentMilestone(percent) \in ProfitMilestones
                          THEN Append(ms.sent, CurrentMilestone(percent))
                          ELSE ms.sent]
    /\ UNCHANGED <<info, bots, orders, exch, sup, stp, rst, cnt, sv, mon, gw, hc, cq, bk>>

NextMilestone ==
    \E cycle_completed \in BOOLEAN, profit \in CycleProfits :
        MilestoneCheck(cycle_completed, profit)

SpecMilestone == Init /\ [][NextMilestone]_vars

(* ------------------------------------------------------------------ *)
(* MEXCService: one gateway call and retry_async around the exchange   *)
(* call it makes.  Delays are in seconds.                              *)
(* ------------------------------------------------------------------ *)
GatewayOps == {"get_balance", "get_current_price", "get_multiple_prices",
               "create_limit_order", "create_market_order", "cancel_order",
               "get_order_status", "get_open_orders"}

\* the max_retries argument each operation passes to retry_async
MaxRetries(op) ==
    IF op \in {"create_limit_order", "create_market_order", "cancel_order"} THEN 2 ELSE 3

DelayStart == 1
BackoffFactor == 2

\* what one exchange call can do: answer, or raise one of these
CallOutcomes == {"ok", "Transient", "InvalidCredentials", "InvalidOrder", "InsufficientFunds"}

RetriedAll(op) == CallOutcomes \ {"ok"}

\* the exceptions tuple each operation passes: ccxt.NetworkError only
Retried(op) == {"Transient"}

\* the operations whose finally clause closes the exchange they created
ClosesExchange(op) == op # "get_order_status"

\* the operation creates its exchange object (conn: the connections this
\* call created and has not closed) and enters retry_async
GatewayCall(op) ==
    /\ gw.pc = "idle"
    /\ gw' = [GwIdle EXCEPT !.pc = "try", !.op = op, !.current_delay = DelayStart,
                            !.conn = 1]
    /\ UNCHANGED <<info, bots, orders, exch, sup, stp, rst, cnt, sv, mon, hc, cq, bk, ms>>

\* one pass of the for loop up to the sleep: await func(...), and the
\* except clause when it raises
RetryAttempt(outcome) ==
    /\ gw.pc = "try"
    /\ gw' = [gw EXCEPT
                !.attempts = @ + 1,
                !.last = outcome,
                !.pc = IF outcome \in Retried(gw.op) /\ gw.attempt # MaxRetries(gw.op)
                       THEN "sleep" ELSE "done",
                !.result = IF outcome \in Retried(gw.op) /\ gw.attempt # MaxRetries(gw.op)
                           THEN "none" ELSE outcome]
    /\ UNCHANGED <<info, bots, orders, exch, sup, stp, rst, cnt, sv, mon, hc, cq, bk, ms>>

\* await asyncio.sleep(current_delay); current_delay *= backoff
RetrySleep ==
    /\ gw.pc = "sleep"
    /\ gw' = [gw EXCEPT !.pc = "try",
                        !.waits = Append(@, gw.current_delay),
                        !.current_delay = @ * BackoffFactor,
                        !.attempt = @ + 1]
    /\ UNCHANGED <<info, bots, orders, exch, sup, stp, rst, cnt, sv, mon, hc, cq, bk, ms>>

\* the operation returns its result or raises MEXCError to its caller
GatewayReturn ==
    /\ gw.pc = "done"
    /\ gw' = [GwIdle EXCEPT !.returned = gw.op,
                            !.conn = IF ClosesExchange(gw.op) THEN 0 ELSE gw.conn]
    /\ UNCHANGED <<info, bots, orders, exch, sup, stp, rst, cnt, sv, mon, hc, cq, bk, ms>>

NextRetry ==
    \/ \E op \in GatewayOps : GatewayCall(op)
    \/ \E outcome \in CallOutcomes : RetryAttempt(outcome)
    \/ RetrySleep
    \/ GatewayReturn

SpecRetry == Init /\ [][NextRetry]_vars

(* ------------------------------------------------------------------ *)
(* HealthCheck.run_periodic_health_check: one pass over one active     *)
(* range bot, check_bot_health followed by auto_fix_bot                *)
(* ------------------------------------------------------------------ *)
FreeBase == {0, 20}

OpenIn(os, b) == {o \in 1..Len(os) : os[o].bot = b /\ os[o].status = "open"}
OpenSellsIn(os, b) == {o \in OpenIn(os, b) : os[o].side = "sell"}

RECURSIVE SumAmountsIn(_, _)
SumAmountsIn(os, S) ==
    IF S = {} THEN 0
    ELSE LET o == CHOOSE x \in S : TRUE
         IN os[o].amount + SumAmountsIn(os, S \ {o})

\* fetch_balance 'total' of the base currency: what the open sells on
\* the exchange lock, plus what is free
LockedBase(es) ==
    SumAmountsIn(es, {x \in 1..Len(es) : es[x].status = "open" /\ es[x].side = "sell"})

\* every level above the current price counts as free
FreeLevelsAbove(os, b, current_price) ==
    {i \in 0..GridLevels : PriceLevel(i) > current_price}

FreeLevelsIn(os, b, current_price) ==
    {i \in 0..GridLevels :
        /\ PriceLevel(i) > current_price
        /\ \A o \in OpenSellsIn(os, b) : os[o].level # i}

\* handle_orphaned_assets on the rows os and the exchange orders es;
\* asked: the amount of the sell it sends to the exchange, 0 when none
OrphanedAssets(b, os, es, balance, current_price, place_ok) ==
    LET orphaned == balance - SumAmountsIn(os, OpenSellsIn(os, b))
        free == FreeLevelsIn(os, b, current_price)
    IN IF \/ balance = 0
          \/ orphaned <= 0
          \/ orphaned < info.min_order_amount
          \/ free = {}
       THEN [o |-> os, e |-> es, placed |-> 0, asked |-> 0]
       ELSE IF ~place_ok
       THEN [o |-> os, e |-> es, placed |-> 0, asked |-> orphaned]
       ELSE LET lvl == CHOOSE i \in free : \A j \in free : i <= j
            IN [o |-> Append(os, NewOrder(b, Len(es) + 1, "sell", lvl, PriceLevel(lvl),
                                          orphaned, 0)),
                e |-> Append(es, NewExch("sell", PriceLevel(lvl), orphaned, 0)),
                placed |-> 1, asked |-> orphaned]

\* cancel_order for the rows in X, all succeeding: an open exchange
\* order is cancelled, for any other one OrderNotFound counts as success
RECURSIVE CancelRows(_, _, _)
CancelRows(os, es, X) ==
    IF X = {} THEN [o |-> os, e |-> es]
    ELSE LET o == CHOOSE y \in X : TRUE
             es2 == IF es[os[o].xid].status = "open"
                    THEN [es EXCEPT ![os[o].xid].status = "canceled"]
                    ELSE es
         IN CancelRows([os EXCEPT ![o].status = "cancelled"], es2, X \ {o})

\* _check_order_prices: the open rows priced outside [lower, upper]
OutOfRange(os, b) ==
    {o \in OpenIn(os, b) : os[o].price < LowerPrice \/ os[o].price > UpperPrice}

\* _fix_duplicate_orders: per (level, side) every open row but the first
Duplicates(os, b) ==
    {o \in OpenIn(os, b) :
        \E f \in OpenIn(os, b) :
            f < o /\ os[f].level = os[o].level /\ os[f].side = os[o].side}

\* _check_order_count: at least 80% of grid_levels rows are open
OrderCountValid(os, b) == 10 * Cardinality(OpenIn(os, b)) >= 8 * GridLevels

\* check_bot_health up to the duplicate check: orphaned assets, order
\* count, out-of-range cancels
CheckBotHealth(b, balance, current_price, quote_ok, place_ok, cancel_ok) ==
    LET c1 == OrphanedAssets(b, orders, exch, balance, current_price, place_ok)
        out == IF cancel_ok THEN OutOfRange(c1.o, b) ELSE {}
        c3 == CancelRows(c1.o, c1.e, out)
    IN [o |-> c3.o, e |-> c3.e, placed |-> c1.placed, cancelled |-> Cardinality(out),
        healthy |-> OrderCountValid(c1.o, b) /\ quote_ok,
        has_duplicates |-> Duplicates(c3.o, b) # {}]

\* auto_fix_bot on the result h of check_bot_health, called when the
\* bot is not healthy
AutoFixBot(b, h, balance, current_price, place_ok, cancel_ok) ==
    LET f1 == IF h.placed = 1
              THEN OrphanedAssets(b, h.o, h.e, balance, current_price, place_ok)
              ELSE [o |-> h.o, e |-> h.e, placed |-> 0]
        dup == IF h.has_duplicates /\ cancel_ok THEN Duplicates(f1.o, b) ELSE {}
        f2 == CancelRows(f1.o, f1.e, dup)
    IN [o |-> f2.o, e |-> f2.e, placed |-> f1.placed, cancelled |-> Cardinality(dup)]

HealthPass(b, balance, current_price, quote_ok, place_ok, cancel_ok) ==
    /\ Running
    /\ cnt.events < MaxEvents
    /\ cnt' = [cnt EXCEPT !.events = @ + 1]
    /\ bots[b].status = "active"
    /\ bots[b].grid_type # "flat"
    /\ \E h \in {CheckBotHealth(b, balance, current_price, quote_ok, place_ok, cancel_ok)} :
       \E f \in {IF h.healthy
                 THEN [o |-> h.o, e |-> h.e, placed |-> 0, cancelled |-> 0]
                 ELSE AutoFixBot(b, h, balance, current_price, place_ok, cancel_ok)} :
          /\ orders' = f.o
          /\ exch' = f.e
          /\ hc' = [n |-> hc.n + 1, bot |-> b,
                    placed |-> h.placed + f.placed,
                    cancelled |-> h.cancelled + f.cancelled,
                    balance |-> balance, ticker |-> current_price,
                    quote_ok |-> quote_ok, ok |-> place_ok /\ cancel_ok,
                    at |-> cnt']
    /\ UNCHANGED <<info, bots, sup, stp, rst, sv, mon, gw, cq, bk, ms>>

\* one call of handle_orphaned_assets for an active range bot;
\* place_ok = the exchange accepts the sell
RepairFreeBase == {0, 5, 20}
RepairBalances == {0} \cup {LockedBase(exch) + f : f \in RepairFreeBase}
RepairTickers == Tickers \cup {UpperPrice}

RepairOrphans(b, balance, current_price, place_ok) ==
    /\ Running
    /\ cnt.events < MaxEvents
    /\ cnt' = [cnt EXCEPT !.events = @ + 1]
    /\ bots[b].status = "active"
    /\ bots[b].grid_type # "flat"
    /\ \E r \in {OrphanedAssets(b, orders, exch, balance, current_price, place_ok)} :
          /\ orders' = r.o
          /\ exch' = r.e
          /\ hc' = [HcIdle EXCEPT !.n = hc.n + 1, !.bot = b, !.placed = r.placed,
                                  !.balance = balance, !.ticker = current_price,
                                  !.ok = place_ok, !.at = cnt', !.asked = r.asked]
    /\ UNCHANGED <<info, bots, sup, stp, rst, sv, mon, gw, cq, bk, ms>>

NextRepair ==
    \/ \E b \in BotIds, acc \in AcceptSets, m \in BOOLEAN : CreateBot(b, acc, m)
    \/ \E x \in 1..Len(exch) : ExchangeFill(x)
    \/ \E b \in BotIds, bal \in RepairBalances, t \in RepairTickers, p \in BOOLEAN :
          RepairOrphans(b, bal, t, p)

SpecRepair == Init /\ [][NextRepair]_vars

\* the orphan repair of two bots of one user on the same symbol
NextShared ==
    \/ \E b \in UserBots, acc \in AcceptSets, m \in BOOLEAN : CreateBot(b, acc, m)
    \/ \E x \in 1..Len(exch) : ExchangeFill(x)
    \/ \E b \in UserBots, bal \in RepairBalances, t \in RepairTickers, p \in BOOLEAN :
          RepairOrphans(b, bal, t, p)

SpecShared == Init /\ [][NextShared]_vars

\* the base balance the exchange can report: what is locked plus some
\* free amount, or the total of the last pass when nothing has changed
HealthBalances ==
    {LockedBase(exch) + f : f \in FreeBase}
        \cup (IF hc.n > 0 /\ cnt = hc.at THEN {hc.balance} ELSE {})

NextHealth ==
    \/ \E b \in BotIds, acc \in AcceptSets, m \in BOOLEAN : CreateBot(b, acc, m)
    \/ \E x \in 1..Len(exch) : ExchangeFill(x)
    \/ \E o \in OrderIds, a \in BOOLEAN : Dispatch(o, a)
    \/ \E b \in BotIds, bal \in HealthBalances, t \in Tickers,
          q \in BOOLEAN, p \in BOOLEAN, c \in BOOLEAN : HealthPass(b, bal, t, q, p, c)

SpecHealth == Init /\ [][NextHealth]_vars

(* ------------------------------------------------------------------ *)
(* BotManager.delete_bot.  A deleted order row keeps its place in      *)
(* orders with status "deleted", the bot its id with status "deleted". *)
(* ------------------------------------------------------------------ *)
\* load the bot; stop_bot(sell_all=False) first if it is active or paused
DeleteBegin(b) ==
    /\ Running
    /\ stp.pc = "idle"
    /\ cnt.events < MaxEvents
    /\ cnt' = [cnt EXCEPT !.events = @ + 1]
    /\ bots[b].status \notin {"none", "deleted"}
    /\ stp' = IF bots[b].status \in {"active", "paused"}
              THEN [pc |-> IF OpenOrdersOf(b) = {} THEN "scan" ELSE "cancel",
                    bot |-> b, sell_all |-> FALSE, snap |-> OpenOrdersOf(b),
                    pending |-> OpenOrdersOf(b), ok |-> {}, count |-> 0,
                    del |-> "after_stop"]
              ELSE [StpIdle EXCEPT !.pc = "delete", !.bot = b, !.del = "direct"]
    /\ UNCHANGED <<info, bots, orders, exch, sup, rst, sv, mon, gw, hc, cq, bk, ms>>

\* delete every order of the bot and the bot, commit, return True
DeleteRows ==
    /\ Running
    /\ stp.pc = "delete"
    /\ orders' = [o \in 1..Len(orders) |->
                    IF orders[o].bot = stp.bot
                    THEN [orders[o] EXCEPT !.status = "deleted"]
                    ELSE orders[o]]
    /\ bots' = [bots EXCEPT ![stp.bot].status = "deleted"]
    /\ stp' = StpIdle
    /\ UNCHANGED <<info, exch, sup, rst, cnt, sv, mon, gw, hc, cq, bk, ms>>

NextDelete ==
    \/ NextManager
    \/ \E b \in BotIds : DeleteBegin(b)
    \/ DeleteRows

SpecDelete == Init /\ [][NextDelete]_vars

(* ------------------------------------------------------------------ *)
(* The supervisors next to stop_bot and delete_bot.  A supervisor task *)
(* that can take a step eventually takes one: every await of its loop  *)
(* (a sleep, an exchange call, a commit) ends.                         *)
(* ------------------------------------------------------------------ *)
SupStep(b) ==
    \/ SupStart(b)
    \/ \E f \in BOOLEAN : SupPollSkip(b, f)
    \/ \E e \in AuthErrorTexts : SupPollAuthError(b, e)
    \/ \E a \in BOOLEAN : SupPollFilled(b, a)
    \/ SupCommit(b)
    \/ SupCommitFail(b)

NextSupervise ==
    \/ \E b \in BotIds, acc \in AcceptSets, m \in BOOLEAN : CreateBot(b, acc, m)
    \/ \E x \in 1..Len(exch) : ExchangeFill(x)
    \/ \E b \in BotIds : SupStep(b)
    \/ \E b \in BotIds : StopBegin(b, FALSE)
    \/ \E o \in OrderIds : StopCancelOk(o)
    \/ \E done \in {{}, OrphanedOrderIds} : StopScan(done)
    \/ StopFinish
    \/ \E b \in BotIds : DeleteBegin(b)
    \/ DeleteRows
    \/ Restart
    \/ RestoreSkip(FALSE)
    \/ \E a \in BOOLEAN : RestoreFilled(a)
    \/ RestoreDone

SpecSupervise ==
    Init /\ [][NextSupervise]_vars /\ \A b \in BotIds : WF_vars(SupStep(b))

(* ------------------------------------------------------------------ *)
(* OrderMonitor.stop_monitoring while the supervisor is at work        *)
(* ------------------------------------------------------------------ *)
(* task.cancel(): CancelledError is raised at the await the task is    *)
(* suspended in and the loop breaks.  In the middle of                 *)
(* create_limit_order the request has reached the exchange (reached)   *)
(* or not; between create_limit_order and the commit the exchange      *)
(* order exists and the session is dropped                             *)
SupCancel(b, reached) ==
    /\ Running
    /\ sup[b].pc \in {"idle", "check", "commit"}
    /\ cnt.events < MaxEvents
    /\ cnt' = [cnt EXCEPT !.events = @ + 1]
    /\ IF reached
       THEN /\ sup[b].pc = "check"
            /\ exch[orders[Head(sup[b].todo)].xid].status = "filled"
            /\ orders[Head(sup[b].todo)].status = "open"
            /\ HasCounter(orders[Head(sup[b].todo)])
            /\ exch' = Append(exch, CounterExch(Head(sup[b].todo)))
       ELSE exch' = exch
    /\ sup' = [sup EXCEPT ![b] = [@ EXCEPT !.pc = "exited", !.todo = <<>>, !.placed = 0,
                                           !.cancelled = TRUE]]
    /\ UNCHANGED <<info, bots, orders, stp, rst, sv, mon, gw, hc, cq, bk, ms>>

NextInterrupt ==
    \/ \E b \in BotIds, acc \in AcceptSets, m \in BOOLEAN : CreateBot(b, acc, m)
    \/ \E x \in 1..Len(exch) : ExchangeFill(x)
    \/ \E b \in BotIds : SupStep(b)
    \/ \E b \in BotIds, r \in BOOLEAN : SupCancel(b, r)
    \/ Restart
    \/ \E f \in BOOLEAN : RestoreSkip(f)
    \/ \E a \in BOOLEAN : RestoreFilled(a)
    \/ RestoreDone

SpecInterrupt == Init /\ [][NextInterrupt]_vars

Next ==
    \/ \E b \in BotIds, acc \in AcceptSets, m \in BOOLEAN :
          CreateBot(b, acc, m)
    \/ \E x \in 1..Len(exch) : ExchangeFill(x)
    \/ \E b \in BotIds : SupStart(b)
    \/ \E b \in BotIds, f \in BOOLEAN : SupPollSkip(b, f)
    \/ \E b \in BotIds, e \in AuthErrorTexts : SupPollAuthError(b, e)
    \/ \E b \in BotIds, a \in BOOLEAN : SupPollFilled(b, a)
    \/ \E b \in BotIds : SupCommit(b)
    \/ \E b \in BotIds : SupCommitFail(b)
    \/ \E b \in BotIds, sa \in BOOLEAN : StopBegin(b, sa)
    \/ \E o \in OrderIds : StopCancelOk(o)
    \/ \E o \in OrderIds : StopCancelNotFound(o)
    \/ \E o \in OrderIds : StopCancelFail(o)
    \/ \E done \in SUBSET (1..Len(exch)) : StopScan(done)
    \/ StopFinish
    \/ \E b \in BotIds : PauseBot(b)
    \/ \E b \in BotIds : ResumeBot(b)
    \/ Restart
    \/ \E f \in BOOLEAN : RestoreSkip(f)
    \/ \E a \in BOOLEAN : RestoreFilled(a)
    \/ RestoreDone
    \/ \E b \in BotIds, bal \in Balances, t \in Tickers : HealthOrphan(b, bal, t)

Spec == Init /\ [][Next]_vars

(* ------------------------------------------------------------------ *)
(* Properties                                                          *)
(* ------------------------------------------------------------------ *)
(* the exchange orders placed as counter order of order o, and the     *)
(* rows persisted for them                                             *)
CounterOrdersOf(o) == {x \in 1..Len(exch) : exch[x].cause = o}
CounterRowsOf(o) == {r \in OrderIds : orders[r].xid \in CounterOrdersOf(o)}

(* C1: when stop_bot returns (its last step, the commit of status      *)
(* 'stopped'), no order of the bot is persisted as open and none of    *)
(* the bot's exchange orders is open on the exchange                   *)
C1_StopLeavesNothingOpen ==
    [][(stp.pc = "finish" /\ stp'.pc = "idle" /\ rst'.pc = "running") =>
          \A o \in 1..Len(orders') :
              orders'[o].bot = stp.bot =>
                  /\ orders'[o].status # "open"
                  /\ exch'[orders'[o].xid].status # "open"]_vars

(* C2: a bot with status 'stopped' has no order persisted as open      *)
C2_StoppedHasNoOpenOrder ==
    \A b \in BotIds : bots[b].status = "stopped" => OpenOrdersOf(b) = {}

(* C3: however often an order is dispatched to handle_filled_order, it *)
(* has at most one counter order on the exchange and one persisted     *)
(* row, and completed_cycles counts each sell with a profit once       *)
C3_DoubleDispatchOneCounter ==
    /\ \A o \in OrderIds :
          /\ Cardinality(CounterOrdersOf(o)) <= 1
          /\ Cardinality(CounterRowsOf(o)) <= 1
    /\ \A b \in BotIds :
          bots[b].completed_cycles =
              Cardinality({o \in OrderIds : orders[o].bot = b /\ orders[o].profit # <<>>})

(* C4: a persisted status other than 'open' never changes              *)
C4_TerminalStatusStays ==
    [][\A o \in OrderIds :
          orders[o].status # "open" => orders'[o].status = orders[o].status]_vars

(* C5: over the whole run every order causes at most one counter       *)
(* order on the exchange                                               *)
C5_OneCounterPerFill ==
    \A o \in OrderIds : Cardinality(CounterOrdersOf(o)) <= 1

(* C6: the amount computed for a ladder level covers the order size,   *)
(* is a whole number of precision steps and is at least the minimum,   *)
(* whichever form the precision has; for s = 5, p = 130, step 0.001    *)
(* and minimum 0.01 it is 0.039                                        *)
C6_AmountCoversCost ==
    sv.pc = "out" =>
        /\ \A a \in {sv.range_places, sv.range_step} :
              /\ a * sv.p >= sv.s * AmtScale
              /\ a % Pow10(AmtDigits - sv.n) = 0
              /\ a >= sv.m
        /\ (sv.s = 500 /\ sv.p = 13000 /\ sv.n = 3 /\ sv.m = 10) =>
              (sv.range_step = 39 /\ sv.range_places = 39)

(* C7: n decimal places and the step 10^-n give the same amount, in    *)
(* the range computation and in the flat computation                   *)
C7_BothFormsAlike ==
    sv.pc = "out" =>
        /\ sv.range_places = sv.range_step
        /\ sv.flat_places = sv.flat_step

(* C8: every persisted order of an active or paused bot costs at least *)
(* the per-order cost: amount x price >= order size                    *)
C8_CostAtLeastOrderSize ==
    \A o \in OrderIds :
        bots[orders[o].bot].status \in {"active", "paused"} =>
            orders[o].amount * orders[o].price >= InvestmentAmount * AmtScale

(* C9: each handling of a filled order places and persists exactly one *)
(* counter order when the level one above a buy (one below a sell) is  *)
(* within 0..levels: opposite side, the price of that level, the       *)
(* amount of the filled order; otherwise it places and persists none   *)
C9_CounterOneLevelAway ==
    [][/\ \A o \in OrderIds :
             (orders[o].status # "filled" /\ orders'[o].status = "filled") =>
                 LET f == orders[o]
                     t == IF f.side = "buy" THEN f.level + 1 ELSE f.level - 1
                 IN IF t \in 0..GridLevels
                    THEN /\ Len(orders') = Len(orders) + 1
                         /\ LET c == orders'[Len(orders')]
                            IN /\ c.bot = f.bot
                               /\ c.side = (IF f.side = "buy" THEN "sell" ELSE "buy")
                               /\ c.level = t
                               /\ c.price = RoundDownPrice(PriceLevel(t), info.price_precision)
                               /\ c.amount = f.amount
                               /\ c.status = "open"
                               /\ exch'[c.xid].cause = o
                               /\ exch'[c.xid].side = c.side
                               /\ exch'[c.xid].price = c.price
                               /\ exch'[c.xid].amount = c.amount
                    ELSE /\ Len(orders') = Len(orders)
                         /\ CounterOrdersOf(o) = {}
                         /\ exch' = exch
       /\ Len(exch') > Len(exch) /\ exch'[Len(exch')].cause # 0 =>
             LET f == orders[exch'[Len(exch')].cause]
                 t == IF f.side = "buy" THEN f.level + 1 ELSE f.level - 1
                 e == exch'[Len(exch')]
             IN /\ Len(exch') = Len(exch) + 1
                /\ t \in 0..GridLevels
                /\ e.side = (IF f.side = "buy" THEN "sell" ELSE "buy")
                /\ e.price = RoundDownPrice(PriceLevel(t), info.price_precision)
                /\ e.amount = f.amount]_vars

(* C9 witness: a filled buy has its sell one level up and a filled     *)
(* sell has its buy one level down, both persisted                     *)
C9_Witness ==
    /\ \E o \in OrderIds, c \in OrderIds :
          /\ orders[o].side = "buy" /\ orders[o].status = "filled"
          /\ c \in CounterRowsOf(o) /\ orders[c].level = orders[o].level + 1
    /\ \E o \in OrderIds, c \in OrderIds :
          /\ orders[o].side = "sell" /\ orders[o].status = "filled"
          /\ c \in CounterRowsOf(o) /\ orders[c].level = orders[o].level - 1

(* a filled sell at level 0 was handled and has no counter order       *)
FilledAtEdgeNoCounter ==
    \E o \in OrderIds :
        /\ orders[o].side = "sell" /\ orders[o].level = 0
        /\ orders[o].status = "filled"
        /\ CounterOrdersOf(o) = {}

(* C10: an order with paired_order_id is a sell, and the order it      *)
(* refers to is a filled buy of the same bot one level lower           *)
C10_PairedIsFilledBuyBelow ==
    \A o \in OrderIds :
        orders[o].paired # 0 =>
            /\ orders[o].side = "sell"
            /\ orders[o].paired \in OrderIds
            /\ LET p == orders[orders[o].paired]
               IN /\ p.bot = orders[o].bot
                  /\ p.side = "buy"
                  /\ p.status = "filled"
                  /\ p.level = orders[o].level - 1

FlatSellNoCounter ==
    \E o \in OrderIds :
        /\ bots[orders[o].bot].grid_type = "flat"
        /\ orders[o].side = "sell" /\ orders[o].price <= FlatSpread
        /\ orders[o].status = "filled"
        /\ CounterOrdersOf(o) = {}

(* the sum of profit over a set of orders that carry one               *)
RECURSIVE SumProfit(_)
SumProfit(S) ==
    IF S = {} THEN 0
    ELSE LET o == CHOOSE x \in S : TRUE
         IN orders[o].profit[1] + SumProfit(S \ {o})

ProfitOrdersOf(b) == {o \in OrderIds : orders[o].bot = b /\ orders[o].profit # <<>>}

(* C12: a bot's total_profit is the sum of the profit of its orders    *)
(* that carry a profit                                                 *)
C12_TotalProfitIsSum ==
    \A b \in BotIds : bots[b].total_profit = SumProfit(ProfitOrdersOf(b))

(* C13: a bot's status changes only from active to paused, from paused *)
(* to active, and from active or paused to stopped (and into active at *)
(* creation); a stopped bot keeps its status                           *)
C13_LifecycleTransitions ==
    [][\A b \in BotIds :
          bots'[b].status # bots[b].status =>
              <<bots[b].status, bots'[b].status>> \in
                  {<<"none", "active">>, <<"active", "paused">>, <<"paused", "active">>,
                   <<"active", "stopped">>, <<"paused", "stopped">>}]_vars

(* C14: in a step taken while a bot is paused no limit order is placed *)
(* on the exchange as counter order of one of its orders and no order  *)
(* is persisted for it                                                 *)
C14_PausedPlacesNothing ==
    [][\A b \in BotIds :
          bots[b].status = "paused" =>
              /\ \A r \in (Len(orders) + 1)..Len(orders') : orders'[r].bot # b
              /\ \A x \in (Len(exch) + 1)..Len(exch') :
                    exch'[x].cause # 0 => orders[exch'[x].cause].bot # b]_vars

(* C15: while the application runs, every active bot has a supervisor  *)
(* task that is running                                                *)
C15_ActiveHasSupervisor ==
    \A b \in BotIds :
        (Running /\ bots[b].status = "active") =>
            sup[b].pc \in {"idle", "check", "commit"}

(* the tasks of bot id b that still run the supervisor loop            *)
RunningTasksOf(b) ==
    {t \in DOMAIN mon.tasks : mon.tasks[t].bot = b /\ mon.tasks[t].state = "running"}

C17_InvalidCredentialsStops ==
    \A b \in BotIds :
        sup[b].cred =>
            /\ bots[b].status = "stopped"
            /\ sup[b].notes = 1
            /\ sup[b].pc = "exited"

(* C18: a bot whose initial placement produced no order at all is      *)
(* stopped (order rows are never deleted, so a bot without rows is a   *)
(* bot whose creation placed nothing)                                  *)
C18_ZeroOrdersStopped ==
    \A b \in BotIds :
        (bots[b].status # "none" /\ {o \in OrderIds : orders[o].bot = b} = {})
            => bots[b].status = "stopped"

(* C19: whatever the operation, the exchange call is attempted at most *)
(* three times, each wait is twice the one before, and a call that     *)
(* ends after transient failures only surfaces the failure             *)
C19_AtMostThreeAttempts ==
    /\ gw.attempts <= 3
    /\ \A i \in 2..Len(gw.waits) : gw.waits[i] = 2 * gw.waits[i - 1]
    /\ (gw.pc = "done" /\ gw.last = "Transient") => gw.result = "Transient"

NonTransient == {"InvalidCredentials", "InvalidOrder", "InsufficientFunds"}

C21_HealthPassIdempotent ==
    [][ ( /\ hc'.n = hc.n + 1 /\ hc.n > 0
          /\ hc'.bot = hc.bot
          /\ cnt = hc.at
          /\ hc'.balance = hc.balance /\ hc'.ticker = hc.ticker
          /\ hc'.quote_ok = hc.quote_ok
          /\ hc.ok /\ hc'.ok )
        => hc'.placed + hc'.cancelled = 0 ]_vars

(* C22: after a health pass in which the cancel calls succeed no       *)
(* (level, side) of the bot has more than one open order               *)
C22_PassLeavesNoDuplicates ==
    [][ (hc'.n = hc.n + 1 /\ hc'.ok) => Duplicates(orders', hc'.bot) = {} ]_vars

(* C23: initial placement of a range bot in which every order is       *)
(* accepted puts grid_levels / 2 buys on the lowest ladder prices      *)
(* P[0], P[1], ... and grid_levels / 2 sells on the highest ones,      *)
(* ending at P[grid_levels] = upper_price                              *)
C23_PlacementHalves ==
    [][ \A b \in BotIds :
          ( /\ bots[b].status = "none" /\ bots'[b].status = "active"
            /\ bots'[b].grid_type # "flat"
            /\ bots'[b].total_buy_orders = GridLevels \div 2
            /\ bots'[b].total_sell_orders = GridLevels \div 2 )
          => LET mine == {o \in 1..Len(orders') : orders'[o].bot = b}
             IN /\ {orders'[o].price : o \in {x \in mine : orders'[x].side = "buy"}}
                      = {RoundDownPrice(PriceLevel(i), info.price_precision) :
                             i \in 0..((GridLevels \div 2) - 1)}
                /\ {orders'[o].price : o \in {x \in mine : orders'[x].side = "sell"}}
                      = {RoundDownPrice(PriceLevel(i), info.price_precision) :
                             i \in (GridLevels - (GridLevels \div 2) + 1)..GridLevels}
                /\ \E o \in mine : orders'[o].side = "sell" /\ orders'[o].price = UpperPrice
      ]_vars

(* C24: when delete_bot returns, the bot row and every order row of    *)
(* the bot are gone, and if it stopped the bot first none of the bot's *)
(* orders is still open on the exchange                                *)
C24_DeleteLeavesNothing ==
    [][ (stp.pc = "delete" /\ stp'.pc = "idle") =>
          /\ bots'[stp.bot].status = "deleted"
          /\ \A o \in 1..Len(orders') :
                orders[o].bot = stp.bot => orders'[o].status = "deleted"
          /\ stp.del = "after_stop" =>
                \A o \in 1..Len(orders) :
                    orders[o].bot = stp.bot => exch'[orders[o].xid].status # "open"
      ]_vars

(* C25: when the restore ends and monitoring starts, fill handling has *)
(* been invoked for every open order of an active bot that the         *)
(* exchange had filled when the restore began (taken here for a        *)
(* restore in which no get_order_status call failed)                   *)
C25_RestoreHandlesEveryFill ==
    [][ (rst.pc = "sync" /\ rst'.pc = "running" /\ rst.polls_ok) =>
            rst.filled0 \subseteq rst.invoked ]_vars

(* C26: in initial placement (range and flat) the buy limit orders are *)
(* sent first, then the market pre-buy, then the sell limit orders;    *)
(* sells are placed only after the pre-buy succeeded, and when it      *)
(* fails no sell is placed while every buy the exchange accepted is    *)
(* kept as a persisted open row                                        *)
C26_BuysPrebuySells ==
    [][ \A b \in BotIds :
          (bots[b].status = "none" /\ bots'[b].status = "active") =>
            LET new == {o \in (Len(orders) + 1)..Len(orders') : orders'[o].bot = b}
                sent == (Len(exch) + 1)..Len(exch')
            IN /\ bots'[b].prebuy \in {"ok", "failed"}
               /\ \A o \in new :
                     IF orders'[o].side = "buy"
                     THEN orders'[o].xid <= bots'[b].prebuy_at
                     ELSE /\ orders'[o].xid > bots'[b].prebuy_at
                          /\ bots'[b].prebuy = "ok"
               /\ bots'[b].prebuy = "failed" =>
                     /\ \A x \in sent : exch'[x].side = "buy"
                     /\ \A x \in sent : \E o \in new :
                           /\ orders'[o].xid = x
                           /\ orders'[o].status = "open"
                     /\ bots'[b].total_sell_orders = 0 ]_vars

(* C26 witness: a bot whose pre-buy failed runs with its buys only     *)
C26_Witness ==
    \E b \in BotIds :
        /\ bots[b].prebuy = "failed"
        /\ bots[b].total_buy_orders > 0
        /\ \E o \in OrderIds : orders[o].bot = b /\ orders[o].side = "buy"
        /\ \A o \in OrderIds : orders[o].bot = b => orders[o].side = "buy"

(* C27: during stop_bot at most 10 cancel requests are in flight at    *)
(* any moment, cancels of loaded rows and of exchange orphans counted  *)
(* together; no order is submitted twice, and when the call ends every *)
(* loaded open order, and every orphan get_open_orders returned, has   *)
(* been submitted exactly once                                         *)
C27_CancelLimit ==
    /\ Cardinality(cq.fly) <= 10
    /\ cq.pc # "idle" =>
          /\ \A t \in CancelIds : cq.sub[t] <= 1
          /\ cq.pc \in {"orphans", "done"} => \A t \in cq.snap : cq.sub[t] = 1
          /\ (cq.pc = "done" /\ cq.scanned) =>
                \A t \in ExchangeOrphans : cq.sub[t] = 1

(* C27 witness: ten cancels in flight and a further task waiting       *)
C27_Witness ==
    /\ cq.pc = "db"
    /\ Cardinality(cq.fly) = 10
    /\ cq.wait # {}

(* C28: over initial placement, a repeated start, fills with their     *)
(* counter orders, pause and resume, a bot's total_buy_orders and      *)
(* total_sell_orders never decrease                                    *)
C28_TotalsMonotonic ==
    [][ \A b \in BotIds :
          /\ bots'[b].total_buy_orders >= bots[b].total_buy_orders
          /\ bots'[b].total_sell_orders >= bots[b].total_sell_orders ]_vars

(* C29: one orphan repair of a bot whose sell the exchange accepts:    *)
(* with d = base balance minus the amounts of the bot's open sells,    *)
(* when d >= min_order_amount and some ladder level above the ticker   *)
(* has no open sell, exactly one sell of amount d is placed and        *)
(* persisted at the lowest such level; when d <= 0, d is below         *)
(* min_order_amount or there is no such level, nothing is placed       *)
C29_OrphanRepairExact ==
    [][ (hc'.n = hc.n + 1 /\ hc'.ok) =>
          LET b == hc'.bot
              sells == {o \in OrderIds : /\ orders[o].bot = b
                                         /\ orders[o].status = "open"
                                         /\ orders[o].side = "sell"}
              d == hc'.balance - SumAmounts(sells)
              free == {i \in 0..GridLevels :
                          /\ PriceLevel(i) > hc'.ticker
                          /\ \A o \in sells : orders[o].level # i}
          IN IF d > 0 /\ d >= info.min_order_amount /\ free # {}
             THEN /\ Len(orders') = Len(orders) + 1
                  /\ Len(exch') = Len(exch) + 1
                  /\ SubSeq(orders', 1, Len(orders)) = orders
                  /\ SubSeq(exch', 1, Len(exch)) = exch
                  /\ LET row == orders'[Len(orders')]
                     IN /\ row.bot = b /\ row.side = "sell" /\ row.status = "open"
                        /\ row.amount = d
                        /\ row.level \in free
                        /\ \A j \in free : row.level <= j
                        /\ row.xid = Len(exch')
                        /\ exch'[row.xid].side = "sell"
                        /\ exch'[row.xid].status = "open"
                        /\ exch'[row.xid].amount = d
             ELSE orders' = orders /\ exch' = exch ]_vars

(* C29 witness: a repair has placed its sell on the top level, the     *)
(* levels below it that are above the ticker holding open sells        *)
C29_Witness ==
    /\ hc.n > 0 /\ hc.ok /\ hc.placed = 1
    /\ hc.at = cnt
    /\ orders[Len(orders)].level = GridLevels
    /\ orders[Len(orders)].amount = 20
    /\ \E o \in OpenSellsOf(hc.bot) :
          orders[o].level < GridLevels /\ PriceLevel(orders[o].level) > hc.ticker

(* C30: an iteration of the supervisor that fails is followed by a     *)
(* sleep of 1 s when the iteration before it succeeded (or it is the   *)
(* first), and of twice the previous sleep, at most 60 s, for each     *)
(* further consecutive failure; an iteration that succeeds leaves the  *)
(* delay at 1 s and is followed by the base check interval             *)
C30_BackoffSchedule ==
    [][ (bk'.n = bk.n + 1) =>
          IF bk'.kind = "backoff"
          THEN bk'.slept = (IF bk.fails = 0 THEN 1
                            ELSE IF 2 * bk.slept < 60 THEN 2 * bk.slept ELSE 60)
          ELSE bk'.slept = CheckInterval /\ bk'.retry_delay = 1 ]_vars

C32_CancelKeepsPlacedOrder ==
    [][ \A b \in BotIds :
          (sup'[b].cancelled /\ ~sup[b].cancelled) =>
             LET inflight == (IF sup[b].placed # 0 THEN {sup[b].placed} ELSE {})
                                \cup ((Len(exch) + 1)..Len(exch'))
             IN \A x \in inflight :
                   \E o \in 1..Len(orders') : orders'[o].xid = x ]_vars

(* C33: in initial placement a level whose limit order the exchange    *)
(* rejects is skipped alone: every other level of the buy half, and of *)
(* the sell half when the pre-buy succeeded, gets its order, every     *)
(* order the exchange accepted is persisted as an open row, and the    *)
(* bot is active                                                       *)
C33_RejectedLevelSkippedAlone ==
    [][ \A b \in BotIds :
          (bots[b].status = "none" /\ bots'[b].status # "none") =>
            LET new == {o \in (Len(orders) + 1)..Len(orders') : orders'[o].bot = b}
                sent == (Len(exch) + 1)..Len(exch')
                keys == IF bots'[b].grid_type = "flat"
                        THEN {k \in FlatLevelKeys \ bots'[b].rejected :
                                 k[1] = "buy" \/ bots'[b].prebuy = "ok"}
                        ELSE {<<"buy", i>> : i \in BuyLevels \ bots'[b].rejected}
                             \cup {<<"sell", i>> : i \in
                                     IF bots'[b].prebuy = "ok"
                                     THEN SellLevels \ bots'[b].rejected ELSE {}}
            IN /\ bots'[b].status = "active"
               /\ \A k \in keys : \E o \in new :
                     /\ orders'[o].side = k[1] /\ orders'[o].level = k[2]
                     /\ orders'[o].status = "open"
                     /\ exch'[orders'[o].xid].status = "open"
               /\ \A x \in sent : \E o \in new :
                     orders'[o].xid = x /\ orders'[o].status = "open"
               /\ Cardinality(new) = Cardinality(keys) ]_vars

(* C33 witness: a range bot placed with one buy level rejected, the    *)
(* levels after it holding their orders                                *)
C33_Witness ==
    \E b \in BotIds :
        /\ bots[b].status = "active" /\ bots[b].grid_type # "flat"
        /\ bots[b].rejected = {0}
        /\ bots[b].total_buy_orders = NumBuyLevels - 1
        /\ bots[b].total_sell_orders = NumSellLevels

(* C34: a supervisor that is checking an order with further open       *)
(* orders of the bot still to check goes on with them whatever the     *)
(* handling of a fill does, a rejected counter order included: its     *)
(* next step is the commit of the fill, the poll of the next order or  *)
(* the end of the task, never the end of the iteration                 *)
C34_RejectedCounterGoesOn ==
    [][ \A b \in BotIds :
          (sup[b].pc = "check" /\ Len(sup[b].todo) > 1 /\ rst'.pc = "running") =>
              sup'[b].pc # "idle" ]_vars

(* ------------------------------------------------------------------ *)
(* C35: after any gateway call has returned or raised, the exchange    *)
(* connection it created is closed: no connection of the call is left  *)
(* open, whichever operation it was and however it ended               *)
(* ------------------------------------------------------------------ *)
C35_ConnectionsClosed ==
    (gw.pc = "idle" /\ gw.returned # "none") => gw.conn = 0


(* ------------------------------------------------------------------ *)
(* C36: the notification for a given multiple of 5% is sent at most    *)
(* once per bot: not again on later completed cycles while             *)
(* total_profit_percent stays within the same milestone                *)
(* ------------------------------------------------------------------ *)
C36_MilestoneOnce ==
    \A m \in ProfitMilestones :
        Cardinality({i \in DOMAIN ms.sent : ms.sent[i] = m}) <= 1


(* ------------------------------------------------------------------ *)
(* C37: stop_bot for one bot cancels no exchange order that is         *)
(* persisted as open for another bot of the user, and leaves the       *)
(* other bot's persisted orders unchanged                              *)
(* ------------------------------------------------------------------ *)
C37_StopLeavesOtherBots ==
    [][ stp.pc # "idle" =>
          /\ \A x \in 1..Len(exch) :
                 (exch[x].status = "open" /\ exch'[x].status = "canceled") =>
                     ~\E o \in 1..Len(orders) :
                         /\ orders[o].xid = x
                         /\ orders[o].bot # stp.bot
                         /\ orders[o].status = "open"
          /\ \A o \in 1..Len(orders) :
                 orders[o].bot # stp.bot => orders'[o] = orders[o] ]_vars


(* ------------------------------------------------------------------ *)
(* C38: in every state of an active range bot, after the initial       *)
(* placement and any fills the strategy handled, no two open orders    *)
(* of the bot have the same level and side                             *)
(* ------------------------------------------------------------------ *)
C38_NoTwoOpenOnLevelSide ==
    \A b \in BotIds :
        bots[b].status = "active" =>
            \A o, f \in OpenOrdersOf(b) :
                (orders[o].level = orders[f].level /\ orders[o].side = orders[f].side)
                    => o = f


(* ------------------------------------------------------------------ *)
(* C39: stop_bot reaches 'stopped' despite exchange failures: a cancel *)
(* that fails, a failed open-orders scan or a failed market sell do    *)
(* not end the call; it sets the status to stopped and the cancelled   *)
(* count it returns grows by exactly the cancels that succeeded        *)
(* ------------------------------------------------------------------ *)
C39_StopDespiteFailures ==
    [][ stp.pc # "idle" =>
          /\ stp'.pc # "idle" =>
                 stp'.count - stp.count =
                     Cardinality(stp'.ok \ stp.ok)
                     + Cardinality({x \in 1..Len(exch) :
                           /\ exch[x].status = "open"
                           /\ exch'[x].status = "canceled"
                           /\ \A o \in stp'.ok \ stp.ok : orders[o].xid # x})
          /\ stp'.pc = "idle" =>
                 stp.pc = "finish" /\ bots'[stp.bot].status = "stopped" ]_vars

\* the call has returned with the bot stopped although a cancel failed:
\* the row of that order is still open
C39_Witness ==
    \E b \in BotIds :
        /\ stp.pc = "idle"
        /\ bots[b].status = "stopped"
        /\ OpenOrdersOf(b) # {}


(* ------------------------------------------------------------------ *)
(* C40: the health checker treats as orphaned only base currency that  *)
(* no open sell of any bot backs: the amount a repair pass asks the    *)
(* exchange to sell is at most the base balance minus the open sells   *)
(* of all bots, so nothing is sold for the backing of another bot      *)
(* ------------------------------------------------------------------ *)
C40_OrphanedIsUnbackedByAnyBot ==
    [][ (hc'.n = hc.n + 1 /\ hc'.asked > 0) =>
          hc'.asked <= hc'.balance
                         - SumAmounts({o \in OrderIds : /\ orders[o].status = "open"
                                                        /\ orders[o].side = "sell"}) ]_vars

====
